---- MODULE Spec2Model ----
(***************************************************************************)
(* A model of org_syn_scrapper.py: the OrgSynScrapper session (three       *)
(* ASP.NET state tokens threaded through one GET and two postbacks with    *)
(* bounded retries), the parallel link discovery of one volume, the crawl  *)
(* over several volumes and the parallel download of the found files.      *)
(*                                                                         *)
(* Python values are modelled as follows.  None is the empty tuple.  A     *)
(* token issued by the server is a tuple <<session, response, field>>, so  *)
(* that two tokens are equal exactly if they come from the same field of   *)
(* the same response.  Volume and page identifiers are strings, "" is the  *)
(* value of the placeholder option of a select element.                    *)
(***************************************************************************)
EXTENDS Integers, Sequences, FiniteSets, TLC

VARIABLES
    scrapper,   \* task -> the fields of its OrgSynScrapper instance
    received,   \* task -> the token triples of the responses its session got
    call,       \* task -> record of the last request_* call of its instance
    sid,        \* task -> the identity of the session of its instance
    calls,      \* number of calls made through the public methods so far
    pc,         \* task -> where it stands
    fetch,      \* the frame of ScrapperParser.fetch_links
    load,       \* the frame of do_load_volume_links_parallel
    work,       \* worker -> the frame of do_load_volume_pages_pdf_links
    faults,     \* number of disturbed requests so far
    down,       \* the frame of download_pdf_files_parallel and its tasks
    pure        \* a function applied outside a run: its arguments and result

vars ==
    <<scrapper, received, call, sid, calls, pc, fetch, load, work, faults,
      down, pure>>

crawlVars == <<pc, fetch, load, work, faults, down, pure>>

sessionVars == <<scrapper, received, call, sid, calls>>

----------------------------------------------------------------------------
(* Bounds of the model *)

\* number of worker processes a caller may ask for (number_of_processes)
MaxWorkers == 2
\* number of page identifiers the server may list for a volume
MaxPages == 3
\* number of volume identifiers the server may list
MaxVolumes == 2
\* number of leading request attempts that may fail in transport
MaxFails == 5
\* number of method calls made on one instance through its public methods
MaxCalls == 2
\* number of requests of a crawl the transport or the server may disturb
MaxFaults == 1
\* number of descriptors handed to download_pdf_files_parallel
MaxLinks == 3

----------------------------------------------------------------------------
(* Program constants *)

PR_OPTIONS_INDEX == 11
PR_VIEWSTATE_INDEX == 51
PR_VIEWSTATEGENERATOR_INDEX == 55
PR_EVENTVALIDATION_INDEX == 59

None == <<>>

\* The tasks: 0 is the coordinating process, 1..MaxWorkers the pool workers.
Tasks == 0..MaxWorkers

AllVolumes == <<"88", "89", "90", "91">>
AllPages == <<"1", "12", "121", "130", "140">>

Volumes == {AllVolumes[i] : i \in 1..MaxVolumes}
Pages == {AllPages[i] : i \in 1..MaxPages}

\* for i in range(start, stop)
\* the number of tries the messages of the retry loops announce
Tries == 5

\* a loop that stops one attempt early
ShortRange == [start |-> 0, stop |-> 4]

\* for i in range(5) of download_pdf_file
DownloadRange == [start |-> 0, stop |-> 5]

\* a loop over range(5)
FiveTries == [start |-> 0, stop |-> 5]

VolumesRange == [start |-> 1, stop |-> 5]
PagesRange == [start |-> 0, stop |-> 5]
LinksRange == [start |-> 0, stop |-> 5]

\* a backoff that does not grow
FlatBackoff(i) == 10

\* time.sleep(i * 10)
Backoff(i) == i * 10

----------------------------------------------------------------------------
(* The retry loop shared by the request methods:                           *)
(*   for i in range(start, stop):                                          *)
(*       try: response = ...; break                                        *)
(*       except RequestException: time.sleep(i * 10)                       *)
(*   else: return []                                                       *)
(* The transport fails on the first `fails` attempts and answers the next. *)
(* The result tells the attempts made, the delays slept and whether the    *)
(* else branch (no break) was taken.                                       *)

\* a loop that does not sleep after the attempt it will not repeat
RECURSIVE RetryFromNoLastSleep(_, _, _, _, _)
RetryFromNoLastSleep(i, stop, fails, attempts, delays) ==
    IF i >= stop
    THEN [attempts |-> attempts, delays |-> delays, exhausted |-> TRUE]
    ELSE IF attempts + 1 > fails
         THEN [attempts |-> attempts + 1, delays |-> delays,
               exhausted |-> FALSE]
         ELSE RetryFromNoLastSleep(
                  i + 1, stop, fails, attempts + 1,
                  IF i + 1 >= stop THEN delays
                  ELSE Append(delays, Backoff(i)))

RECURSIVE RetryFrom(_, _, _, _, _)
RetryFrom(i, stop, fails, attempts, delays) ==
    IF i >= stop
    THEN [attempts |-> attempts, delays |-> delays, exhausted |-> TRUE]
    ELSE IF attempts + 1 > fails
         THEN [attempts |-> attempts + 1, delays |-> delays,
               exhausted |-> FALSE]
         ELSE RetryFrom(i + 1, stop, fails, attempts + 1,
                        Append(delays, Backoff(i)))

Retry(range, fails) == RetryFrom(range.start, range.stop, fails, 0, <<>>)

----------------------------------------------------------------------------
(* What the server sends.  Response number r to session s carries the      *)
(* tokens <<s, r, 1>>, <<s, r, 2>>, <<s, r, 3>>; `present` tells which of   *)
(* the three the markup really contains.                                   *)

URL == "http://orgsyn.org"

Triple(vs, vsg, ev) ==
    [viewstate |-> vs, viewstategenerator |-> vsg, eventvalidation |-> ev]

NoTokens == Triple(None, None, None)

IssuedTokens(s, r, present) ==
    Triple(IF 1 \in present THEN <<s, r, 1>> ELSE None,
           IF 2 \in present THEN <<s, r, 2>> ELSE None,
           IF 3 \in present THEN <<s, r, 3>> ELSE None)

\* the hidden input elements of a full HTML page, in document order
InputElements(tokens) ==
    LET all == << [id |-> "__VIEWSTATE", value |-> tokens.viewstate],
                  [id |-> "__VIEWSTATEGENERATOR",
                   value |-> tokens.viewstategenerator],
                  [id |-> "__EVENTVALIDATION",
                   value |-> tokens.eventvalidation] >>
    IN  SelectSeq(all, LAMBDA el : el.value # None)

\* the site root: hidden inputs and the option values of the volume select
RootPage(tokens, options) ==
    [inputs |-> InputElements(tokens), options |-> options]

\* the partial frame of the "select annual volume" postback, split on "|":
\* n segments, the options at PR_OPTIONS_INDEX and the tokens at their offsets
\* (Python counts from 0, a TLA+ sequence from 1)
PartialFrame(n, tokens, options) ==
    [k \in 1..n |->
        IF k = PR_OPTIONS_INDEX + 1 THEN options
        ELSE IF k = PR_VIEWSTATE_INDEX + 1 THEN tokens.viewstate
        ELSE IF k = PR_VIEWSTATEGENERATOR_INDEX + 1
             THEN tokens.viewstategenerator
        ELSE IF k = PR_EVENTVALIDATION_INDEX + 1 THEN tokens.eventvalidation
        ELSE None]

----------------------------------------------------------------------------
(* Helpers of the request methods *)

\* the instance after __init__
NewScrapper ==
    [session |-> "None", viewstate |-> None, viewstategenerator |-> None,
     eventvalidation |-> None]

\* tokens kept in one place for all instances: those of the coordinator
SharedTokens(self) ==
    Triple(scrapper[0].viewstate, scrapper[0].viewstategenerator,
           scrapper[0].eventvalidation)

\* the tokens of the instance, as put into the body of a postback
StoredTokens(self) ==
    Triple(self.viewstate, self.viewstategenerator, self.eventvalidation)

\* soup.find('input', {"id": input_id}); input_el['value'] if found, else None
get_input_value(soup, input_id) ==
    LET found == SelectSeq(soup.inputs, LAMBDA el : el.id = input_id)
    IN  IF found # <<>> THEN found[1].value ELSE None

\* filter(lambda value: value, values): the empty string is dropped
FilterEmpty(values) == SelectSeq(values, LAMBDA v : v # "")

\* a membership test that lets everything pass
ContainsAnything(seq, x) == TRUE

\* x in seq
Contains(seq, x) == \E k \in 1..Len(seq) : seq[k] = x

NoError == [kind |-> "None", volume |-> "", page |-> ""]
IndexError == [kind |-> "IndexError", volume |-> "", page |-> ""]

\* an outcome that forgets the tokens of the session when the loop gave up
OutcomeForgetsTokens(self, ret, exc, loop, sent) ==
    [self |-> IF loop.exhausted
              THEN [self EXCEPT !.viewstate = None,
                                !.viewstategenerator = None,
                                !.eventvalidation = None]
              ELSE self,
     ret |-> ret, exc |-> exc, attempts |-> loop.attempts,
     delays |-> loop.delays, exhausted |-> loop.exhausted, sent |-> sent]

\* what a request method leaves behind: the instance, the value returned or
\* the exception raised, and what went over the wire
Outcome(self, ret, exc, loop, sent) ==
    [self |-> self, ret |-> ret, exc |-> exc, attempts |-> loop.attempts,
     delays |-> loop.delays, exhausted |-> loop.exhausted, sent |-> sent]

----------------------------------------------------------------------------
(* OrgSynScrapper.request_volumes *)

request_volumes(self, fails, response) ==
    LET loop == Retry(VolumesRange, fails)
        soup == response
        updated ==
            [self EXCEPT
                !.viewstate = get_input_value(soup, "__VIEWSTATE"),
                !.viewstategenerator =
                    get_input_value(soup, "__VIEWSTATEGENERATOR"),
                !.eventvalidation =
                    get_input_value(soup, "__EVENTVALIDATION")]
    IN  IF loop.exhausted
        THEN Outcome(self, <<>>, NoError, loop, NoTokens)
        ELSE Outcome(updated, FilterEmpty(soup.options), NoError, loop,
                     NoTokens)

----------------------------------------------------------------------------
(* OrgSynScrapper.request_pages_of_volume *)

\* str(response.content).split("|")[index] raises IndexError past the end
InRange(segments, index) == index < Len(segments)

\* an index taken one too low
SegmentOffByOne(segments, index) == segments[index]

Segment(segments, index) == segments[index + 1]

request_pages_of_volume(self, volume, fails, response) ==
    LET body == StoredTokens(self)
        loop == Retry(PagesRange, fails)
        segments == response
        s1 == [self EXCEPT
                  !.viewstate = Segment(segments, PR_VIEWSTATE_INDEX)]
        s2 == [s1 EXCEPT
                  !.viewstategenerator =
                      Segment(segments, PR_VIEWSTATEGENERATOR_INDEX)]
        s3 == [s2 EXCEPT
                  !.eventvalidation =
                      Segment(segments, PR_EVENTVALIDATION_INDEX)]
    IN  IF loop.exhausted
        THEN Outcome(self, <<>>, NoError, loop, body)
        ELSE IF ~InRange(segments, PR_OPTIONS_INDEX)
        THEN Outcome(self, <<>>, IndexError, loop, body)
        ELSE IF ~InRange(segments, PR_VIEWSTATE_INDEX)
        THEN Outcome(self, <<>>, IndexError, loop, body)
        ELSE IF ~InRange(segments, PR_VIEWSTATEGENERATOR_INDEX)
        THEN Outcome(s1, <<>>, IndexError, loop, body)
        ELSE IF ~InRange(segments, PR_EVENTVALIDATION_INDEX)
        THEN Outcome(s2, <<>>, IndexError, loop, body)
        ELSE Outcome(s3,
                     FilterEmpty(Segment(segments, PR_OPTIONS_INDEX)),
                     NoError, loop, body)

----------------------------------------------------------------------------
(* OrgSynScrapper.request_volume_page_pdf_links                            *)
(* A URL is a record [base, folder, stem, ext]; an href is the same        *)
(* without a base.  Names and titles are sequences of characters.          *)

PdfDescription(annual_volume, page, name, url) ==
    [aliases |-> <<>>, annual_volume |-> annual_volume, name |-> name,
     page |-> page, url |-> url]

\* urllib.parse.urljoin(OrgSynScrapper.URL, href)
urljoin(base, href) ==
    [base |-> base, folder |-> href.folder, stem |-> href.stem,
     ext |-> href.ext]

\* Path(url).stem
PathStem(url) == url.stem

\* a test that takes no url for a document
NeverPdf(url) == FALSE

\* url.endswith(".pdf")
EndsWithPdf(url) == url.ext = "pdf"

\* a filter that takes every tag with a link
HasHref(tag) == "href" \in tag.attrs

\* tag.has_attr("href") and href.startswith("Content") and
\* href.endswith(".pdf")
pdf_link_filter(tag) ==
    /\ "href" \in tag.attrs
    /\ tag.href.folder = "Content"
    /\ tag.href.ext = "pdf"

\* f"Content/pdfs/procedures/{tag['id']}.pdf"
ProcedureHref(id) == [folder |-> "Content", stem |-> id, ext |-> "pdf"]

RECURSIVE LStrip(_)
LStrip(text) ==
    IF text # <<>> /\ Head(text) = " " THEN LStrip(Tail(text)) ELSE text

RECURSIVE RStrip(_)
RStrip(text) ==
    IF text # <<>> /\ text[Len(text)] = " "
    THEN RStrip(SubSeq(text, 1, Len(text) - 1))
    ELSE text

\* str.strip() for blanks
Strip(text) == RStrip(LStrip(text))

\* an extraction that pairs titles and links as far as both reach, without
\* comparing their numbers
ExtractLinksZip(volume, page, response) ==
    LET soup == response
        link_tags == SelectSeq(soup.tags, pdf_link_filter)
        links ==
            IF link_tags = <<>>
            THEN [k \in 1..Len(soup.containers) |->
                     urljoin(URL, ProcedureHref(soup.containers[k]))]
            ELSE [k \in 1..Len(link_tags) |->
                     urljoin(URL, link_tags[k].href)]
        title_tags ==
            IF link_tags = <<>> THEN soup.proc_titles ELSE soup.titles
        shorter ==
            IF Len(title_tags) < Len(links) THEN Len(title_tags)
            ELSE Len(links)
    IN  IF EndsWithPdf(response.url)
        THEN << PdfDescription(volume, page, PathStem(response.url),
                               response.url) >>
        ELSE [k \in 1..shorter |->
                 PdfDescription(volume, page, Strip(title_tags[k]),
                                links[k])]

\* the descriptors read from the response to the search postback
ExtractLinks(volume, page, response) ==
    LET url == response.url
        soup == response
        link_tags == SelectSeq(soup.tags, pdf_link_filter)
        primary ==
            [k \in 1..Len(link_tags) |-> urljoin(URL, link_tags[k].href)]
        alternate ==
            [k \in 1..Len(soup.containers) |->
                urljoin(URL, ProcedureHref(soup.containers[k]))]
        links == IF link_tags = <<>> THEN alternate ELSE primary
        title_tags ==
            IF link_tags = <<>> THEN soup.proc_titles ELSE soup.titles
        titles == [k \in 1..Len(title_tags) |-> Strip(title_tags[k])]
    IN  IF EndsWithPdf(url)
        THEN << PdfDescription(volume, page, PathStem(url), url) >>
        ELSE IF Len(titles) = Len(links)
        THEN [k \in 1..Len(links) |->
                 PdfDescription(volume, page, titles[k], links[k])]
        ELSE [k \in 1..Len(links) |->
                 PdfDescription(volume, page, PathStem(links[k]), links[k])]

\* a request that stands in an empty descriptor for a page it could not get
RequestLinksOrPlaceholder(self, volume, page, fails, response) ==
    LET body == StoredTokens(self)
        loop == Retry(LinksRange, fails)
    IN  IF loop.exhausted
        THEN Outcome(self, << PdfDescription(volume, page, <<>>, URL) >>,
                     NoError, loop, body)
        ELSE Outcome(self, ExtractLinks(volume, page, response), NoError,
                     loop, body)

request_volume_page_pdf_links(self, volume, page, fails, response) ==
    LET body == StoredTokens(self)
        loop == Retry(LinksRange, fails)
    IN  IF loop.exhausted
        THEN Outcome(self, <<>>, NoError, loop, body)
        ELSE Outcome(self, ExtractLinks(volume, page, response), NoError,
                     loop, body)

----------------------------------------------------------------------------
(* PdfDescription.slug and PdfDescription.download_path *)

\* the characters \w matches under (?a): ASCII letters, digits, "_"
AsciiWordChars == {"a", "b", "A", "B", "1", "_"}

\* the characters \w matches under (?u): letters of any script, digits, "_"
WordChars == {"a", "b", "A", "B", "1", "_", "ß"}

\* str.replace(' ', '_')
ReplaceBlanks(text) ==
    [k \in 1..Len(text) |-> IF text[k] = " " THEN "_" ELSE text[k]]

\* a slug that already carries the extension of the file
SlugWithExtension(description) ==
    SelectSeq(ReplaceBlanks(Strip(description.name)),
              LAMBDA c : c \in WordChars \/ c = "-" \/ c = ".") \o <<".">>

\* re.sub(r'(?u)[^-\w.]', '', str(name).strip().replace(' ', '_'))
slug(description) ==
    SelectSeq(ReplaceBlanks(Strip(description.name)),
              LAMBDA c : c \in WordChars \/ c = "-" \/ c = ".")

\* f"{annual_volume}/{page}/{slug}.pdf"
download_path(description) ==
    <<description.annual_volume, description.page, slug(description)>>

\* os.path.join(dest_dir, description.download_path)
TargetPath(dest_dir, description) ==
    <<dest_dir>> \o download_path(description)

----------------------------------------------------------------------------
(* OrgSynScrapper.download_pdf_file                                        *)
(* urlretrieve raises URLError on the first `fails` attempts; `last` is    *)
(* what the attempt after them does: "ok", or "OSError" for an error that  *)
(* is no URLError (the target cannot be written, the connection is reset   *)
(* while the body is read).                                                *)

OSError == [kind |-> "OSError", volume |-> "", page |-> ""]

download_pdf_file(dest_dir, description, fails, last) ==
    LET path == TargetPath(dest_dir, description)
        loop == Retry(DownloadRange, fails)
    IN  [path |-> path, attempts |-> loop.attempts, delays |-> loop.delays,
         exhausted |-> loop.exhausted,
         ret |-> ~loop.exhausted /\ last = "ok",
         exc |-> IF ~loop.exhausted /\ last = "OSError"
                 THEN OSError ELSE NoError]

----------------------------------------------------------------------------
(* OrgSynScrapper.deduplicate_links *)

\* a search that finds no accepted description
NoneWithUrl(accepted, url) == 0

\* the position of the first accepted description with this url, 0 if none
FirstWithUrl(accepted, url) ==
    LET hits == {k \in 1..Len(accepted) : accepted[k].url = url}
    IN  IF hits = {} THEN 0
        ELSE CHOOSE k \in hits : \A j \in hits : k <= j

\* a pass that does not look whether the name is already an alias
DeduplicateStepNoAliasCheck(accepted, description) ==
    LET k == FirstWithUrl(accepted, description.url)
    IN  IF k = 0 THEN Append(accepted, description)
        ELSE IF accepted[k].name = description.name THEN accepted
        ELSE [accepted EXCEPT
                 ![k].aliases = Append(@, description.name)]

\* a pass whose inner loop goes on after an alias was recorded, so that its
\* else branch accepts the description as well
DeduplicateStepNoBreak(accepted, description) ==
    LET k == FirstWithUrl(accepted, description.url)
    IN  IF k = 0 THEN Append(accepted, description)
        ELSE IF accepted[k].name = description.name THEN accepted
        ELSE IF \E i \in 1..Len(accepted[k].aliases) :
                   accepted[k].aliases[i] = description.name
        THEN accepted
        ELSE Append([accepted EXCEPT
                        ![k].aliases = Append(@, description.name)],
                    description)

\* one pass of the outer loop: the inner loop with its break and else branch
DeduplicateStep(accepted, description) ==
    LET k == FirstWithUrl(accepted, description.url)
    IN  IF k = 0 THEN Append(accepted, description)
        ELSE IF accepted[k].name = description.name THEN accepted
        ELSE IF Contains(accepted[k].aliases, description.name)
        THEN accepted
        ELSE [accepted EXCEPT
                 ![k].aliases = Append(@, description.name)]

RECURSIVE DeduplicateFrom(_, _)
DeduplicateFrom(accepted, links) ==
    IF links = <<>> THEN accepted
    ELSE DeduplicateFrom(DeduplicateStep(accepted, Head(links)), Tail(links))

\* a return of the accumulated list as it is
NoDeduplication(links) == links

deduplicate_links(links) == DeduplicateFrom(<<>>, links)

----------------------------------------------------------------------------
(* a split that gives the extra elements to the last chunks               *)

ChunkSizeLast(len, n, k) ==
    (len \div n) + (IF k > n - (len % n) THEN 1 ELSE 0)

(* numpy.array_split(pages, number_of_processes): the first len % n chunks *)
(* hold len // n + 1 elements, the others len // n                        *)

ChunkSize(len, n, k) == (len \div n) + (IF k <= len % n THEN 1 ELSE 0)

RECURSIVE ChunkStart(_, _, _)
ChunkStart(len, n, k) ==
    IF k = 1 THEN 1 ELSE ChunkStart(len, n, k - 1) + ChunkSize(len, n, k - 1)

\* a split that hands the whole sequence to every worker
WholeListToEach(seq, n) == [k \in 1..n |-> seq]

array_split(seq, n) ==
    [k \in 1..n |->
        SubSeq(seq, ChunkStart(Len(seq), n, k),
               ChunkStart(Len(seq), n, k) + ChunkSize(Len(seq), n, k) - 1)]

\* the results joined from the last to the first
RECURSIVE ConcatReversed(_)
ConcatReversed(lists) ==
    IF lists = <<>> THEN <<>>
    ELSE ConcatReversed(Tail(lists)) \o Head(lists)

\* links += i for every i of result
RECURSIVE Concat(_)
Concat(lists) ==
    IF lists = <<>> THEN <<>> ELSE Head(lists) \o Concat(Tail(lists))

----------------------------------------------------------------------------
(* The inputs: what the transport and the server may do *)

FailCounts == 0..MaxFails

\* which of the three hidden inputs a full page contains
TokenShapes == {{1, 2, 3}, {1, 3}}

RECURSIVE Prefixes(_)
Prefixes(seq) ==
    IF seq = <<>> THEN {<<>>}
    ELSE {seq} \cup Prefixes(SubSeq(seq, 1, Len(seq) - 1))

\* the option values of a select element: the placeholder, then identifiers
VolumeOptions == {<<"">> \o p : p \in Prefixes(SubSeq(AllVolumes, 1, MaxVolumes))}
PageOptions == {<<"">> \o p : p \in Prefixes(SubSeq(AllPages, 1, MaxPages))}

\* the number of segments of a partial frame: the full frame and the frames
\* cut right before each of the four offsets the client reads
FrameLengths ==
    {PR_OPTIONS_INDEX, PR_VIEWSTATE_INDEX, PR_VIEWSTATEGENERATOR_INDEX,
     PR_EVENTVALIDATION_INDEX, PR_EVENTVALIDATION_INDEX + 1}

SearchUrl == [base |-> URL, folder |-> "", stem |-> <<>>, ext |-> "aspx"]

\* a full HTML page answering the search postback
SearchPage(tokens, tags, titles, containers, proc_titles) ==
    [url |-> SearchUrl, inputs |-> InputElements(tokens), tags |-> tags,
     titles |-> titles, containers |-> containers,
     proc_titles |-> proc_titles]

\* the search postback redirected to a PDF file
PdfRedirect(stem) ==
    [url |-> urljoin(URL, ProcedureHref(stem)), inputs |-> <<>>,
     tags |-> <<>>, titles |-> <<>>, containers |-> <<>>,
     proc_titles |-> <<>>]

Anchor(stem) == [attrs |-> {"href"}, href |-> ProcedureHref(stem)]

\* the answers of the server to a search postback
SearchResponses(tokens) ==
    { PdfRedirect(<<"a">>),
      SearchPage(tokens, <<Anchor(<<"b">>)>>, << <<" ", "B">> >>, <<>>,
                 <<>>) }

\* the server turns a postback down: the body of its answer to a partial
\* postback is the text of an error page, one segment without a "|"
ErrorBody == <<None>>

\* the server turns a search postback down: an HTML page without hidden
\* inputs and without links
ErrorPage == SearchPage(NoTokens, <<>>, <<>>, <<>>, <<>>)

\* the server has a reason to turn a postback down: a token of the body is
\* absent, or the body is not the triple of the last response
Unfit(body, responses) ==
    \/ body.viewstate = None
    \/ body.viewstategenerator = None
    \/ body.eventvalidation = None
    \/ responses # <<>> /\ body # responses[Len(responses)]

\* the tokens a partial frame of n segments still contains
FrameTokens(n, tokens) ==
    Triple(IF n > PR_VIEWSTATE_INDEX THEN tokens.viewstate ELSE None,
           IF n > PR_VIEWSTATEGENERATOR_INDEX
           THEN tokens.viewstategenerator ELSE None,
           IF n > PR_EVENTVALIDATION_INDEX
           THEN tokens.eventvalidation ELSE None)

----------------------------------------------------------------------------
(* What the server may answer to a postback of a session: the response,   *)
(* the tokens it carries and its kind                                      *)

\* to request_pages_of_volume: a partial frame, whole or cut short, or the
\* error page
FrameAnswers(tokens) ==
    {[response |-> PartialFrame(n, tokens, options),
      carried |-> FrameTokens(n, tokens), shape |-> "frame"] :
        n \in FrameLengths, options \in PageOptions}
    \cup {[response |-> ErrorBody, carried |-> NoTokens,
           shape |-> "rejected"]}

\* to request_volume_page_pdf_links of the session with identity s that has
\* got r - 1 responses: a redirect, a page with links, or the error page
SearchAnswers(s, r) ==
    {[response |-> response,
      carried |-> IF EndsWithPdf(response.url) THEN NoTokens
                  ELSE IssuedTokens(s, r, present),
      shape |-> IF EndsWithPdf(response.url) THEN "pdf" ELSE "html"] :
        <<present, response>> \in
            UNION {{<<p, x>> : x \in SearchResponses(IssuedTokens(s, r, p))} :
                   p \in TokenShapes}}
    \cup {[response |-> ErrorPage, carried |-> NoTokens,
           shape |-> "rejected"]}

----------------------------------------------------------------------------
(* The record of a call, kept for the properties *)

NoCall ==
    [op |-> "none", volume |-> "", page |-> "", session |-> "None",
     before |-> NoTokens, sent |-> NoTokens, attempts |-> 0, delays |-> <<>>,
     exhausted |-> FALSE, ret |-> <<>>, exc |-> NoError,
     shape |-> "none", carried |-> NoTokens, flag |-> FALSE, fails |-> 0]

CallRecord(op, volume, page, self, out, shape, carried, fails) ==
    [op |-> op, volume |-> volume, page |-> page, session |-> self.session,
     before |-> StoredTokens(self), sent |-> out.sent,
     attempts |-> out.attempts, delays |-> out.delays,
     exhausted |-> out.exhausted, ret |-> out.ret, exc |-> out.exc,
     shape |-> IF out.exhausted THEN "none" ELSE shape,
     carried |-> IF out.exhausted THEN NoTokens ELSE carried,
     flag |-> FALSE, fails |-> fails]

\* the responses a session has got so far, with the one of this call
Delivered(before, out, carried) ==
    IF out.exhausted THEN before ELSE Append(before, carried)

----------------------------------------------------------------------------
(* The frames of the crawl *)

Workers == 1..MaxWorkers

\* volume=None of fetch_links
VolumeNone == "None"

NoFetch ==
    [volume |-> VolumeNone, number_of_processes |-> 0,
     annual_volumes |-> <<>>, index |-> 1, pdf_descriptions |-> <<>>,
     ret |-> <<>>, exc |-> NoError]

NoLoad ==
    [volume |-> "", pages |-> <<>>, page_chunks |-> <<>>, result |-> <<>>,
     links |-> <<>>]

NoWork ==
    [volume |-> "", pages |-> <<>>, volumes |-> <<>>,
     volume_pages |-> <<>>, index |-> 1, requested |-> <<>>,
     attempts |-> 0, links |-> <<>>, exc |-> NoError]

VolumeNotExist(volume) ==
    [kind |-> "VolumeNotExist", volume |-> volume, page |-> ""]

PageNotExist(page, volume) ==
    [kind |-> "PageNotExist", volume |-> volume, page |-> page]

----------------------------------------------------------------------------
(* ProgressBar *)

NewBar == [progress |-> 0, total |-> 0, printed |-> 0, breaks |-> 0]

\* print_progress: one more redraw of the bar
print_progress(bar) == [bar EXCEPT !.printed = @ + 1]

\* a set_total that redraws the bar whatever the total is
SetTotalAndRedraw(bar, total) ==
    print_progress([bar EXCEPT !.total = total])

\* set_total: sets the total and redraws the bar if the total is not 0
set_total(bar, total) ==
    LET b == [bar EXCEPT !.total = total]
    IN  IF total # 0 THEN print_progress(b) ELSE b

\* increase: one more item; redraws unless the total is passed, and breaks
\* the line when the total is reached
increase(bar) ==
    LET b == [bar EXCEPT !.progress = @ + 1]
    IN  IF b.progress > b.total THEN b
        ELSE IF b.progress = b.total
        THEN [print_progress(b) EXCEPT !.breaks = @ + 1]
        ELSE print_progress(b)

\* ProgressBar(total): progress is 0, then set_total(total)
ProgressBar(total) == set_total(NewBar, total)

----------------------------------------------------------------------------
(* The frame of download_pdf_files_parallel *)

NoTask ==
    [state |-> "none", path |-> <<>>, attempts |-> 0, delays |-> <<>>,
     fails |-> 0, ret |-> FALSE, exc |-> NoError]

NoDown ==
    [links |-> <<>>, dest_dir |-> "", number_of_processes |-> 0,
     existing |-> {}, directories |-> {}, task |-> <<>>, counted |-> {},
     bar |-> NewBar, exc |-> NoError]

\* no function is applied outside a run
NoPure == [op |-> "none", done |-> FALSE]

----------------------------------------------------------------------------
(* A session used through its public methods, as in                        *)
(*   with OrgSynScrapper() as scrapper: ...                                *)
(* by one task: any sequence of the three request methods.                 *)

InitSession ==
    /\ scrapper = [t \in Tasks |-> NewScrapper]
    /\ received = [t \in Tasks |-> <<>>]
    /\ call = [t \in Tasks |-> NoCall]
    /\ sid = [t \in Tasks |-> 0]
    /\ calls = 0
    /\ pc = [t \in Tasks |-> "idle"]
    /\ fetch = NoFetch
    /\ load = NoLoad
    /\ work = [w \in Workers |-> NoWork]
    /\ faults = 0
    /\ down = NoDown
    /\ pure = NoPure

\* OrgSynScrapper.__enter__
Enter(t) ==
    /\ scrapper[t].session = "None"
    /\ scrapper' = [scrapper EXCEPT ![t].session = "open"]
    /\ sid' = [sid EXCEPT ![t] = 1]
    /\ UNCHANGED <<received, call, calls>>
    /\ UNCHANGED crawlVars

\* OrgSynScrapper.__exit__
Exit(t) ==
    /\ scrapper[t].session = "open"
    /\ scrapper' = [scrapper EXCEPT ![t].session = "closed"]
    /\ UNCHANGED <<received, call, calls, sid>>
    /\ UNCHANGED crawlVars

CallRequestVolumes(t) ==
    /\ scrapper[t].session = "open"
    /\ calls < MaxCalls
    /\ \E fails \in FailCounts, present \in TokenShapes,
          options \in VolumeOptions :
          LET r == Len(received[t]) + 1
              carried == IssuedTokens(sid[t], r, present)
              response == RootPage(carried, options)
              out == request_volumes(scrapper[t], fails, response)
          IN  /\ scrapper' = [scrapper EXCEPT ![t] = out.self]
              /\ received' = [received EXCEPT ![t] = Delivered(received[t], out, carried)]
              /\ call' = [call EXCEPT ![t] =
                     CallRecord("request_volumes", "", "", scrapper[t], out,
                                "html", carried, fails)]
    /\ calls' = calls + 1
    /\ UNCHANGED sid
    /\ UNCHANGED crawlVars

CallRequestPagesOfVolume(t) ==
    /\ scrapper[t].session = "open"
    /\ calls < MaxCalls
    /\ \E volume \in Volumes, fails \in FailCounts,
          answer \in FrameAnswers(IssuedTokens(sid[t], Len(received[t]) + 1,
                                               {1, 2, 3})) :
          LET out == request_pages_of_volume(scrapper[t], volume, fails,
                                             answer.response)
          IN  /\ answer.shape = "rejected" =>
                     Unfit(StoredTokens(scrapper[t]), received[t])
              /\ scrapper' = [scrapper EXCEPT ![t] = out.self]
              /\ received' = [received EXCEPT ![t] =
                     Delivered(received[t], out, answer.carried)]
              /\ call' = [call EXCEPT ![t] =
                     CallRecord("request_pages_of_volume", volume, "",
                                scrapper[t], out, answer.shape,
                                answer.carried, fails)]
    /\ calls' = calls + 1
    /\ UNCHANGED sid
    /\ UNCHANGED crawlVars

CallRequestVolumePagePdfLinks(t) ==
    /\ scrapper[t].session = "open"
    /\ calls < MaxCalls
    /\ \E volume \in Volumes, page \in Pages, fails \in FailCounts,
          answer \in SearchAnswers(sid[t], Len(received[t]) + 1) :
          LET out == request_volume_page_pdf_links(
                         scrapper[t], volume, page, fails, answer.response)
          IN  /\ answer.shape = "rejected" =>
                     Unfit(StoredTokens(scrapper[t]), received[t])
              /\ scrapper' = [scrapper EXCEPT ![t] = out.self]
              /\ received' = [received EXCEPT ![t] =
                     Delivered(received[t], out, answer.carried)]
              /\ call' = [call EXCEPT ![t] =
                     CallRecord("request_volume_page_pdf_links",
                                volume, page, scrapper[t], out,
                                answer.shape, answer.carried, fails)]
    /\ calls' = calls + 1
    /\ UNCHANGED sid
    /\ UNCHANGED crawlVars

\* the descriptors a caller may hand to download_pdf_file
SomeDescriptions ==
    { PdfDescription(AllVolumes[1], AllPages[1], name,
                     urljoin(URL, ProcedureHref(<<"a">>))) :
        name \in {<<"a">>, <<" ", "B">>} }

CallDownloadPdfFile(t) ==
    /\ calls < MaxCalls
    /\ \E description \in SomeDescriptions, fails \in FailCounts,
          last \in {"ok", "OSError"} :
          LET out == download_pdf_file("dest", description, fails, last)
          IN  call' = [call EXCEPT ![t] =
                  [NoCall EXCEPT !.op = "download_pdf_file",
                                 !.attempts = out.attempts,
                                 !.delays = out.delays,
                                 !.exhausted = out.exhausted,
                                 !.exc = out.exc,
                                 !.flag = out.ret,
                                 !.fails = fails]]
    /\ calls' = calls + 1
    /\ UNCHANGED sid
    /\ UNCHANGED crawlVars
    /\ UNCHANGED <<scrapper, received>>

NextSession ==
    \/ Enter(0)
    \/ Exit(0)
    \/ CallRequestVolumes(0)
    \/ CallRequestPagesOfVolume(0)
    \/ CallRequestVolumePagePdfLinks(0)
    \/ CallDownloadPdfFile(0)

SpecSession == InitSession /\ [][NextSession]_vars

----------------------------------------------------------------------------
(* Properties of a session *)

PostbackOps == {"request_pages_of_volume", "request_volume_page_pdf_links"}

\* C1: in every reachable state the three stored tokens of a session are
\* all unset or all taken from one and the same response of the server, also
\* after calls that failed in transport and after short partial frames.
C1_TokensFromOneResponse ==
    \A t \in Tasks :
        \/ StoredTokens(scrapper[t]) = NoTokens
        \/ \E k \in 1..Len(received[t]) :
              received[t][k] = StoredTokens(scrapper[t])

C4_VolumesFiveAttempts ==
    \A t \in Tasks :
        (call[t].op = "request_volumes" /\ call[t].exhausted)
        => /\ call[t].attempts = Tries
           /\ call[t].ret = <<>>
           /\ call[t].exc = NoError

\* C5: when every POST fails in transport request_pages_of_volume and
\* request_volume_page_pdf_links make exactly 5 attempts and return the empty
\* list without raising; when attempt k <= 5 succeeds it is the last attempt.
C5_PostbackFiveAttempts ==
    \A t \in Tasks :
        call[t].op \in PostbackOps
        => /\ call[t].exhausted <=> call[t].fails >= Tries
           /\ call[t].exhausted
              => /\ call[t].attempts = Tries
                 /\ call[t].ret = <<>>
                 /\ call[t].exc = NoError
           /\ ~call[t].exhausted => call[t].attempts = call[t].fails + 1

\* the pages postback gave up after five failed attempts
C5_Witness ==
    \E t \in Tasks :
        /\ call[t].op = "request_pages_of_volume"
        /\ call[t].exhausted
        /\ call[t].fails = Tries

\* C6: in each retrying operation the delays slept after consecutive failed
\* attempts are strictly increasing.
C6_BackoffIncreases ==
    \A t \in Tasks :
        \A k \in 1..(Len(call[t].delays) - 1) :
            call[t].delays[k] < call[t].delays[k + 1]

\* a download gave up after five failures and five sleeps
C6_Witness ==
    \E t \in Tasks :
        /\ call[t].op = "download_pdf_file"
        /\ call[t].exhausted
        /\ Len(call[t].delays) = Tries

----------------------------------------------------------------------------
(* The site as the crawl sees it.  The server lists SiteVolumes and, for   *)
(* every volume, SitePages; a disturbed listing is a shorter one (the set  *)
(* changed on the server).  The answer to a search depends on the page.    *)

SiteVolumes == SubSeq(AllVolumes, 1, MaxVolumes)
SitePages == SubSeq(AllPages, 1, MaxPages)

Listings(full) == {<<"">> \o p : p \in Prefixes(full)}

FullFrame == PR_EVENTVALIDATION_INDEX + 1

PageIndex(page) == CHOOSE k \in 1..Len(AllPages) : AllPages[k] = page

SiteSearch(page, tokens) ==
    IF PageIndex(page) % 3 = 1 THEN PdfRedirect(<<"a">>)
    ELSE IF PageIndex(page) % 3 = 2
    THEN SearchPage(tokens, <<Anchor(<<"a">>), Anchor(<<"b">>)>>,
                    << <<"A">>, <<" ", "B">> >>, <<>>, <<>>)
    ELSE SearchPage(tokens, <<>>, <<>>, << <<"b">> >>, << <<"B">> >>)

\* the transport during a crawl: it answers at once, after one failure, or
\* not within the retries
CrawlFails == {0, 1, MaxFails}

\* the partial frames during a crawl: full, or cut after the first token
CrawlFrames == {PR_VIEWSTATEGENERATOR_INDEX, FullFrame}

\* what a disturbed request costs of the budget of faults
Cost(disturbed) == IF disturbed THEN 1 ELSE 0

\* the identity of the session task t opens while volume number epoch is
\* crawled (epoch 0: the session fetch_links opens itself)
SessionId(epoch, t) == epoch * (MaxWorkers + 1) + t + 1

\* cls() and __enter__: task t gets an instance of its own
FreshScrapper(t) == [NewScrapper EXCEPT !.session = "open"]

\* a with block that leaves the session as it is
StillOpen(self) == self

\* __exit__ at the end of the with block, also when it is left by raise
Closed(self) == [self EXCEPT !.session = "closed"]

----------------------------------------------------------------------------
(* ScrapperParser.fetch_links and do_load_volume_links_parallel, run by    *)
(* the coordinating process (task 0)                                       *)

InitCrawl ==
    /\ scrapper = [t \in Tasks |-> NewScrapper]
    /\ received = [t \in Tasks |-> <<>>]
    /\ call = [t \in Tasks |-> NoCall]
    /\ sid = [t \in Tasks |-> 0]
    /\ calls = 0
    /\ pc = [t \in Tasks |-> IF t = 0 THEN "fetch_links" ELSE "idle"]
    /\ \E volume \in {VolumeNone, AllVolumes[1]},
          number_of_processes \in 1..MaxWorkers :
          fetch = [NoFetch EXCEPT
                      !.volume = volume,
                      !.number_of_processes = number_of_processes]
    /\ load = NoLoad
    /\ work = [w \in Workers |-> NoWork]
    /\ faults = 0
    /\ down = NoDown
    /\ pure = NoPure

\* fetch_links, volume given: annual_volumes = [volume]
FetchOneVolume ==
    /\ pc[0] = "fetch_links"
    /\ fetch.volume # VolumeNone
    /\ fetch' = [fetch EXCEPT !.annual_volumes = <<fetch.volume>>]
    /\ pc' = [pc EXCEPT ![0] = "for_vol"]
    /\ UNCHANGED <<scrapper, received, call, sid, calls, load, work, faults, down, pure>>

\* fetch_links, volume is None: a session of its own asks for the volumes
FetchAllVolumes ==
    /\ pc[0] = "fetch_links"
    /\ fetch.volume = VolumeNone
    /\ \E fails \in CrawlFails, options \in Listings(SiteVolumes) :
          LET disturbed == fails > 0 \/ options # <<"">> \o SiteVolumes
              id == SessionId(0, 0)
              carried == IssuedTokens(id, 1, {1, 2, 3})
              self == FreshScrapper(0)
              out == request_volumes(self, fails,
                                     RootPage(carried, options))
          IN  /\ faults + Cost(disturbed) <= MaxFaults
              /\ faults' = faults + Cost(disturbed)
              /\ sid' = [sid EXCEPT ![0] = id]
              /\ scrapper' = [scrapper EXCEPT ![0] = Closed(out.self)]
              /\ received' = [received EXCEPT ![0] =
                                 Delivered(<<>>, out, carried)]
              /\ call' = [call EXCEPT ![0] =
                     CallRecord("request_volumes", "", "", self, out,
                                "html", carried, fails)]
              /\ fetch' = [fetch EXCEPT !.annual_volumes = out.ret]
    /\ pc' = [pc EXCEPT ![0] = "for_vol"]
    /\ UNCHANGED <<calls, load, work, down, pure>>

\* the end of the loop over the volumes: return deduplicate_links(...)
FetchLinksReturn ==
    /\ pc[0] = "for_vol"
    /\ fetch.index > Len(fetch.annual_volumes)
    /\ fetch' = [fetch EXCEPT !.ret = deduplicate_links(fetch.pdf_descriptions)]
    /\ pc' = [pc EXCEPT ![0] = "done"]
    /\ UNCHANGED <<scrapper, received, call, sid, calls, load, work, faults, down, pure>>

\* the next volume: do_load_volume_links_parallel up to the check of the
\* volume against the list of the seeding session
LoadSeed ==
    /\ pc[0] = "for_vol"
    /\ fetch.index <= Len(fetch.annual_volumes)
    /\ \E fails \in CrawlFails, options \in Listings(SiteVolumes) :
          LET volume == fetch.annual_volumes[fetch.index]
              disturbed == fails > 0 \/ options # <<"">> \o SiteVolumes
              id == SessionId(fetch.index, 0)
              carried == IssuedTokens(id, 1, {1, 2, 3})
              self == FreshScrapper(0)
              out == request_volumes(self, fails,
                                     RootPage(carried, options))
              volumes == out.ret
          IN  /\ faults + Cost(disturbed) <= MaxFaults
              /\ faults' = faults + Cost(disturbed)
              /\ sid' = [sid EXCEPT ![0] = id]
              /\ received' = [received EXCEPT ![0] =
                                 Delivered(<<>>, out, carried)]
              /\ call' = [call EXCEPT ![0] =
                     CallRecord("request_volumes", "", "", self, out,
                                "html", carried, fails)]
              /\ load' = [NoLoad EXCEPT !.volume = volume]
              /\ IF Contains(volumes, volume)
                 THEN /\ scrapper' = [scrapper EXCEPT ![0] = out.self]
                      /\ pc' = [pc EXCEPT ![0] = "pages"]
                      /\ fetch' = fetch
                 ELSE /\ scrapper' = [scrapper EXCEPT ![0] = Closed(out.self)]
                      /\ pc' = [pc EXCEPT ![0] = "raised"]
                      /\ fetch' = [fetch EXCEPT !.exc = VolumeNotExist(volume)]
    /\ UNCHANGED <<calls, work, down, pure>>

\* pages = scrapper.request_pages_of_volume(volume), end of the with block
LoadPages ==
    /\ pc[0] = "pages"
    /\ \E fails \in CrawlFails, options \in Listings(SitePages),
          n \in CrawlFrames :
          LET disturbed == \/ fails > 0
                           \/ options # <<"">> \o SitePages
                           \/ n # FullFrame
              r == Len(received[0]) + 1
              tokens == IssuedTokens(sid[0], r, {1, 2, 3})
              carried == FrameTokens(n, tokens)
              out == request_pages_of_volume(
                         scrapper[0], load.volume, fails,
                         PartialFrame(n, tokens, options))
          IN  /\ faults + Cost(disturbed) <= MaxFaults
              /\ faults' = faults + Cost(disturbed)
              /\ scrapper' = [scrapper EXCEPT ![0] = Closed(out.self)]
              /\ received' = [received EXCEPT ![0] =
                                 Delivered(received[0], out, carried)]
              /\ call' = [call EXCEPT ![0] =
                     CallRecord("request_pages_of_volume", load.volume, "",
                                scrapper[0], out, "frame", carried, fails)]
              /\ IF out.exc = NoError
                 THEN /\ load' = [load EXCEPT !.pages = out.ret]
                      /\ pc' = [pc EXCEPT ![0] = "dispatch"]
                      /\ fetch' = fetch
                 ELSE /\ load' = load
                      /\ pc' = [pc EXCEPT ![0] = "raised"]
                      /\ fetch' = [fetch EXCEPT !.exc = out.exc]
    /\ UNCHANGED <<sid, calls, work, down, pure>>

\* page_chunks = numpy.array_split(...); pool.starmap(...) hands one task
\* per chunk to the pool; the instances of earlier tasks are gone
LoadDispatch ==
    /\ pc[0] = "dispatch"
    /\ LET n == fetch.number_of_processes
           page_chunks == array_split(load.pages, n)
       IN  /\ load' = [load EXCEPT !.page_chunks = page_chunks]
           /\ work' = [w \in Workers |->
                  IF w <= n
                  THEN [NoWork EXCEPT !.volume = load.volume,
                                      !.pages = page_chunks[w]]
                  ELSE NoWork]
           /\ pc' = [t \in Tasks |->
                  IF t = 0 THEN "join"
                  ELSE IF t <= n THEN "start" ELSE "idle"]
    /\ scrapper' = [t \in Tasks |->
           IF t = 0 THEN scrapper[t] ELSE NewScrapper]
    /\ received' = [t \in Tasks |-> IF t = 0 THEN received[t] ELSE <<>>]
    /\ call' = [t \in Tasks |-> IF t = 0 THEN call[t] ELSE NoCall]
    /\ sid' = [t \in Tasks |-> IF t = 0 THEN sid[t] ELSE 0]
    /\ UNCHANGED <<calls, fetch, faults, down, pure>>

Dispatched == 1..fetch.number_of_processes

\* a map that returns with the first task that has ended
LoadJoinEarly ==
    /\ pc[0] = "join"
    /\ \E w \in Dispatched : pc[w] = "returned"
    /\ \A w \in Dispatched : pc[w] # "raised"
    /\ load' = [load EXCEPT
                   !.result = [w \in Dispatched |-> work[w].links]]
    /\ pc' = [pc EXCEPT ![0] = "merge"]
    /\ UNCHANGED <<scrapper, received, call, sid, calls, fetch, work, faults, down, pure>>

\* starmap returns once every task has ended: the list of their results
LoadJoin ==
    /\ pc[0] = "join"
    /\ \A w \in Dispatched : pc[w] = "returned"
    /\ load' = [load EXCEPT
                   !.result = [w \in Dispatched |-> work[w].links]]
    /\ pc' = [pc EXCEPT ![0] = "merge"]
    /\ UNCHANGED <<scrapper, received, call, sid, calls, fetch, work, faults, down, pure>>

\* starmap raises the exception of a failed task once every task has ended;
\* nothing catches it in do_load_volume_links_parallel or in fetch_links
LoadJoinRaise ==
    /\ pc[0] = "join"
    /\ \A w \in Dispatched : pc[w] \in {"returned", "raised"}
    /\ \E w \in Dispatched :
          /\ pc[w] = "raised"
          /\ fetch' = [fetch EXCEPT !.exc = work[w].exc]
    /\ pc' = [pc EXCEPT ![0] = "raised"]
    /\ UNCHANGED <<scrapper, received, call, sid, calls, load, work, faults, down, pure>>

\* for i in result: links += i; return links; pdf_descriptions += ...
LoadMerge ==
    /\ pc[0] = "merge"
    /\ LET links == Concat(load.result)
       IN  /\ load' = [load EXCEPT !.links = links]
           /\ fetch' = [fetch EXCEPT
                  !.pdf_descriptions = @ \o links,
                  !.index = @ + 1]
    /\ pc' = [pc EXCEPT ![0] = "for_vol"]
    /\ UNCHANGED <<scrapper, received, call, sid, calls, work, faults, down, pure>>

----------------------------------------------------------------------------
(* OrgSynScrapper.do_load_volume_pages_pdf_links, run by a pool worker     *)

\* with cls() as scrapper: volumes = scrapper.request_volumes() and the
\* check of the volume
WorkerSeed(w) ==
    /\ pc[w] = "start"
    /\ \E fails \in CrawlFails, options \in Listings(SiteVolumes) :
          LET volume == work[w].volume
              disturbed == fails > 0 \/ options # <<"">> \o SiteVolumes
              id == SessionId(fetch.index, w)
              carried == IssuedTokens(id, 1, {1, 2, 3})
              self == FreshScrapper(w)
              out == request_volumes(self, fails,
                                     RootPage(carried, options))
              volumes == out.ret
          IN  /\ faults + Cost(disturbed) <= MaxFaults
              /\ faults' = faults + Cost(disturbed)
              /\ sid' = [sid EXCEPT ![w] = id]
              /\ received' = [received EXCEPT ![w] =
                                 Delivered(<<>>, out, carried)]
              /\ call' = [call EXCEPT ![w] =
                     CallRecord("request_volumes", "", "", self, out,
                                "html", carried, fails)]
              /\ IF Contains(volumes, volume)
                 THEN /\ scrapper' = [scrapper EXCEPT ![w] = out.self]
                      /\ pc' = [pc EXCEPT ![w] = "request_pages"]
                      /\ work' = [work EXCEPT
                                     ![w].volumes = volumes,
                                     ![w].attempts = @ + out.attempts]
                 ELSE /\ scrapper' = [scrapper EXCEPT ![w] = Closed(out.self)]
                      /\ pc' = [pc EXCEPT ![w] = "raised"]
                      /\ work' = [work EXCEPT
                                     ![w].volumes = volumes,
                                     ![w].attempts = @ + out.attempts,
                                     ![w].exc = VolumeNotExist(volume)]
    /\ UNCHANGED <<calls, fetch, load, down, pure>>

\* volume_pages = scrapper.request_pages_of_volume(volume)
WorkerPages(w) ==
    /\ pc[w] = "request_pages"
    /\ \E fails \in CrawlFails, options \in Listings(SitePages),
          n \in CrawlFrames :
          LET disturbed == \/ fails > 0
                           \/ options # <<"">> \o SitePages
                           \/ n # FullFrame
              r == Len(received[w]) + 1
              tokens == IssuedTokens(sid[w], r, {1, 2, 3})
              carried == FrameTokens(n, tokens)
              out == request_pages_of_volume(
                         scrapper[w], work[w].volume, fails,
                         PartialFrame(n, tokens, options))
          IN  /\ faults + Cost(disturbed) <= MaxFaults
              /\ faults' = faults + Cost(disturbed)
              /\ received' = [received EXCEPT ![w] =
                                 Delivered(received[w], out, carried)]
              /\ call' = [call EXCEPT ![w] =
                     CallRecord("request_pages_of_volume", work[w].volume,
                                "", scrapper[w], out, "frame", carried,
                                fails)]
              /\ IF out.exc = NoError
                 THEN /\ scrapper' = [scrapper EXCEPT ![w] = out.self]
                      /\ work' = [work EXCEPT
                                     ![w].volume_pages = out.ret,
                                     ![w].attempts = @ + out.attempts]
                      /\ pc' = [pc EXCEPT ![w] = "for_page"]
                 ELSE /\ scrapper' = [scrapper EXCEPT ![w] = Closed(out.self)]
                      /\ work' = [work EXCEPT
                                     ![w].attempts = @ + out.attempts,
                                     ![w].exc = out.exc]
                      /\ pc' = [pc EXCEPT ![w] = "raised"]
    /\ UNCHANGED <<sid, calls, fetch, load, down, pure>>

\* one pass of the loop over the pages of the chunk, the page is listed:
\* links += scrapper.request_volume_page_pdf_links(volume, page)
WorkerPage(w) ==
    /\ pc[w] = "for_page"
    /\ work[w].index <= Len(work[w].pages)
    /\ Contains(work[w].volume_pages, work[w].pages[work[w].index])
    /\ \E fails \in CrawlFails :
          LET volume == work[w].volume
              page == work[w].pages[work[w].index]
              r == Len(received[w]) + 1
              tokens == IssuedTokens(sid[w], r, {1, 2, 3})
              response == SiteSearch(page, tokens)
              carried == IF EndsWithPdf(response.url)
                         THEN NoTokens ELSE tokens
              out == request_volume_page_pdf_links(
                         scrapper[w], volume, page, fails, response)
          IN  /\ faults + Cost(fails > 0) <= MaxFaults
              /\ faults' = faults + Cost(fails > 0)
              /\ scrapper' = [scrapper EXCEPT ![w] = out.self]
              /\ received' = [received EXCEPT ![w] =
                                 Delivered(received[w], out, carried)]
              /\ call' = [call EXCEPT ![w] =
                     CallRecord("request_volume_page_pdf_links", volume,
                                page, scrapper[w], out,
                                IF EndsWithPdf(response.url)
                                THEN "pdf" ELSE "html", carried, fails)]
              /\ work' = [work EXCEPT ![w].links = @ \o out.ret,
                                      ![w].requested = Append(@, page),
                                      ![w].attempts = @ + out.attempts,
                                      ![w].index = @ + 1]
    /\ UNCHANGED <<sid, calls, pc, fetch, load, down, pure>>

\* a loop that looks at all pages it has still to go through and raises for
\* one that is not in the list
WorkerPageMissingAhead(w) ==
    /\ pc[w] = "for_page"
    /\ \E k \in work[w].index..Len(work[w].pages) :
          /\ ~Contains(work[w].volume_pages, work[w].pages[k])
          /\ work' = [work EXCEPT
                 ![w].exc = PageNotExist(work[w].pages[k], work[w].volume)]
    /\ scrapper' = [scrapper EXCEPT ![w] = Closed(scrapper[w])]
    /\ pc' = [pc EXCEPT ![w] = "raised"]
    /\ UNCHANGED <<received, call, sid, calls, fetch, load, faults, down, pure>>

\* one pass of the loop, the page is not in the list just fetched: raise
WorkerPageMissing(w) ==
    /\ pc[w] = "for_page"
    /\ work[w].index <= Len(work[w].pages)
    /\ ~Contains(work[w].volume_pages, work[w].pages[work[w].index])
    /\ work' = [work EXCEPT
                   ![w].exc = PageNotExist(work[w].pages[work[w].index],
                                           work[w].volume)]
    /\ scrapper' = [scrapper EXCEPT ![w] = Closed(scrapper[w])]
    /\ pc' = [pc EXCEPT ![w] = "raised"]
    /\ UNCHANGED <<received, call, sid, calls, fetch, load, faults, down, pure>>

\* the loop is through: end of the with block, return links
WorkerReturn(w) ==
    /\ pc[w] = "for_page"
    /\ work[w].index > Len(work[w].pages)
    /\ scrapper' = [scrapper EXCEPT ![w] = Closed(scrapper[w])]
    /\ pc' = [pc EXCEPT ![w] = "returned"]
    /\ UNCHANGED <<received, call, sid, calls, fetch, load, work, faults, down, pure>>

----------------------------------------------------------------------------
(* OrgSynScrapper.download_pdf_files_parallel: the coordinating process    *)
(* (task 0) and one pool task per descriptor                               *)

NameChars == <<"a", "b", "A", "B", "1">>

\* the k-th descriptor of a batch: two descriptors to a page
LinkAt(k) ==
    LET char == NameChars[((k - 1) % 5) + 1]
    IN  PdfDescription(AllVolumes[1], AllPages[(((k - 1) \div 2) % 3) + 1],
                       <<char>>, urljoin(URL, ProcedureHref(<<char>>)))

\* two documents of one page whose titles differ only in a blank that slug
\* turns into the underscore of the other
Homonyms ==
    << PdfDescription(AllVolumes[1], AllPages[1], <<"a", " ", "b">>,
                      urljoin(URL, ProcedureHref(<<"a">>))),
       PdfDescription(AllVolumes[1], AllPages[1], <<"a", "_", "b">>,
                      urljoin(URL, ProcedureHref(<<"b">>))) >>

Batches == Prefixes([k \in 1..MaxLinks |-> LinkAt(k)]) \cup {Homonyms}

\* a directory per volume only
DirectoryOfVolume(dest_dir, link) == <<dest_dir, link.annual_volume>>

\* os.path.join(dest_dir, f"{link.annual_volume}/{link.page}")
Directory(dest_dir, link) == <<dest_dir, link.annual_volume, link.page>>

\* os.path.dirname of a target path
Parent(path) == SubSeq(path, 1, Len(path) - 1)

InitDownload ==
    /\ scrapper = [t \in Tasks |-> NewScrapper]
    /\ received = [t \in Tasks |-> <<>>]
    /\ call = [t \in Tasks |-> NoCall]
    /\ sid = [t \in Tasks |-> 0]
    /\ calls = 0
    /\ pc = [t \in Tasks |-> IF t = 0 THEN "makedirs" ELSE "idle"]
    /\ fetch = NoFetch
    /\ load = NoLoad
    /\ work = [w \in Workers |-> NoWork]
    /\ faults = 0
    /\ \E links \in Batches, number_of_processes \in 1..MaxWorkers,
          existing \in SUBSET {<<"dest", AllVolumes[1], AllPages[1]>>} :
          down = [NoDown EXCEPT
                     !.links = links,
                     !.dest_dir = "dest",
                     !.existing = existing,
                     !.directories = existing,
                     !.number_of_processes = number_of_processes,
                     !.task = [k \in 1..Len(links) |-> NoTask]]
    /\ pure = NoPure

\* the directories of all links are made, one that is there already is left
\* as it is (exist_ok=True); the total of the bar is set
DownloadMakeDirs ==
    /\ pc[0] = "makedirs"
    /\ down' = [down EXCEPT
           !.directories =
               @ \cup {Directory(down.dest_dir, down.links[k]) :
                          k \in 1..Len(down.links)},
           !.bar = set_total(@, Len(down.links))]
    /\ pc' = [pc EXCEPT ![0] = "imap"]
    /\ UNCHANGED <<fetch, load, work, faults, pure>>
    /\ UNCHANGED sessionVars

\* pool.imap_unordered(...) queues one task per descriptor
DownloadDispatch ==
    /\ pc[0] = "imap"
    /\ down' = [down EXCEPT
           !.task = [k \in 1..Len(down.links) |->
                        [NoTask EXCEPT !.state = "queued"]]]
    /\ pc' = [pc EXCEPT ![0] = "results"]
    /\ UNCHANGED <<fetch, load, work, faults, pure>>
    /\ UNCHANGED sessionVars

Running == {k \in 1..Len(down.task) : down.task[k].state = "running"}

\* a free process of the pool takes the next task of the queue
TaskStart(k) ==
    /\ pc[0] = "results"
    /\ down.task[k].state = "queued"
    /\ \A j \in 1..(k - 1) : down.task[j].state # "queued"
    /\ Cardinality(Running) < down.number_of_processes
    /\ down' = [down EXCEPT
           !.task[k].state = "running",
           !.task[k].path = TargetPath(down.dest_dir, down.links[k])]
    /\ UNCHANGED <<pc, fetch, load, work, faults, pure>>
    /\ UNCHANGED sessionVars

\* download_pdf_file runs to its end in the pool process
TaskEnd(k) ==
    /\ pc[0] = "results"
    /\ down.task[k].state = "running"
    /\ \E fails \in CrawlFails, last \in {"ok", "OSError"} :
          LET out == download_pdf_file(down.dest_dir, down.links[k], fails,
                                       last)
          IN  down' = [down EXCEPT
                  !.task[k] =
                      [state |-> IF out.exc = NoError
                                 THEN "returned" ELSE "raised",
                       path |-> out.path, attempts |-> out.attempts,
                       delays |-> out.delays, fails |-> fails,
                       ret |-> out.ret, exc |-> out.exc]]
    /\ UNCHANGED <<pc, fetch, load, work, faults, pure>>
    /\ UNCHANGED sessionVars

\* for _ in result: the next result that is there; progress_bar.increase()
DownloadResult ==
    /\ pc[0] = "results"
    /\ \E k \in 1..Len(down.task) :
          /\ k \notin down.counted
          /\ down.task[k].state = "returned"
          /\ down' = [down EXCEPT !.counted = @ \cup {k},
                                  !.bar = increase(@)]
    /\ UNCHANGED <<pc, fetch, load, work, faults, pure>>
    /\ UNCHANGED sessionVars

\* for _ in result: the next result is the exception of its task, which is
\* raised here; leaving the with block terminates the pool
DownloadResultRaise ==
    /\ pc[0] = "results"
    /\ \E k \in 1..Len(down.task) :
          /\ k \notin down.counted
          /\ down.task[k].state = "raised"
          /\ down' = [down EXCEPT
                 !.exc = down.task[k].exc,
                 !.counted = @ \cup {k},
                 !.task = [j \in 1..Len(down.task) |->
                     IF down.task[j].state \in {"queued", "running"}
                     THEN [down.task[j] EXCEPT !.state = "terminated"]
                     ELSE down.task[j]]]
    /\ pc' = [pc EXCEPT ![0] = "raised"]
    /\ UNCHANGED <<fetch, load, work, faults, pure>>
    /\ UNCHANGED sessionVars

\* every result has been taken: the with block ends, the method returns
DownloadReturn ==
    /\ pc[0] = "results"
    /\ down.counted = 1..Len(down.task)
    /\ pc' = [pc EXCEPT ![0] = "done"]
    /\ UNCHANGED <<fetch, load, work, faults, down, pure>>
    /\ UNCHANGED sessionVars

NextDownload ==
    \/ DownloadMakeDirs
    \/ DownloadDispatch
    \/ \E k \in 1..Len(down.task) : TaskStart(k)
    \/ \E k \in 1..Len(down.task) : TaskEnd(k)
    \/ DownloadResult
    \/ DownloadResultRaise
    \/ DownloadReturn

SpecDownload == InitDownload /\ [][NextDownload]_vars

NextCrawl ==
    \/ FetchOneVolume
    \/ FetchAllVolumes
    \/ FetchLinksReturn
    \/ LoadSeed
    \/ LoadPages
    \/ LoadDispatch
    \/ LoadJoin
    \/ LoadJoinRaise
    \/ LoadMerge
    \/ \E w \in Workers :
          \/ WorkerSeed(w)
          \/ WorkerPages(w)
          \/ WorkerPage(w)
          \/ WorkerPageMissing(w)
          \/ WorkerReturn(w)

SpecCrawl == InitCrawl /\ [][NextCrawl]_vars

\* the body of the with block of a worker task
WorkerBody(w) ==
    \/ WorkerPages(w)
    \/ WorkerPage(w)
    \/ WorkerPageMissing(w)
    \/ WorkerReturn(w)

\* the coordinator and the processes of the pool are processes of the
\* operating system: one that is inside its with block and can go on is
\* scheduled at last
SpecCrawlFair ==
    /\ InitCrawl
    /\ [][NextCrawl]_vars
    /\ WF_vars(LoadPages)
    /\ \A w \in Workers : WF_vars(WorkerBody(w))

\* the steps of the coordinating process up to the end of its loop
CoordinatorLoop ==
    \/ FetchOneVolume
    \/ FetchAllVolumes
    \/ LoadSeed
    \/ LoadPages
    \/ LoadDispatch
    \/ LoadJoin
    \/ LoadJoinRaise
    \/ LoadMerge

\* every process that can go on is scheduled at last; the deduplication
\* after the loop is a computation without a request
SpecCrawlLive ==
    /\ InitCrawl
    /\ [][NextCrawl]_vars
    /\ WF_vars(CoordinatorLoop)
    /\ \A w \in Workers : WF_vars(WorkerSeed(w) \/ WorkerBody(w))

----------------------------------------------------------------------------
(* The functions of the program that read nothing but their arguments,     *)
(* applied on their own to arguments of bounded size.  pure holds the      *)
(* arguments from the start and the result once the function has run.      *)

\* the longest page list that is split and the largest number of processes
MaxSplitLen == 10
MaxSplitWorkers == 4

\* a page list of the given length; array_split does not read the pages
PageList(len) == [k \in 1..len |-> k]

\* pages and number_of_processes of do_load_volume_links_parallel
SplitInputs ==
    {[op |-> "array_split", done |-> FALSE, pages |-> PageList(len),
      number_of_processes |-> n, page_chunks |-> <<>>] :
        len \in 0..MaxSplitLen, n \in 1..MaxSplitWorkers}

\* the longest descriptor list that is deduplicated
MaxDedupLen == 3

\* descriptors as request_volume_page_pdf_links builds them: two urls, three
\* names, two pages, no aliases
FreshDescriptions ==
    {PdfDescription(AllVolumes[1], page, <<name>>,
                    urljoin(URL, ProcedureHref(<<stem>>))) :
        page \in {AllPages[1], AllPages[2]}, name \in {"A", "B", "C"},
        stem \in {"a", "b"}}

RECURSIVE ListsUpTo(_, _)
ListsUpTo(S, n) ==
    IF n = 0 THEN {<<>>}
    ELSE LET shorter == ListsUpTo(S, n - 1)
         IN  shorter \cup {Append(l, x) : l \in shorter, x \in S}

\* links of deduplicate_links
DedupInputs ==
    {[op |-> "deduplicate_links", done |-> FALSE, links |-> links,
      ret |-> <<>>, twice |-> FALSE, again |-> <<>>] :
        links \in ListsUpTo(FreshDescriptions, MaxDedupLen)}

\* the largest numbers of tags, titles, containers of a response
MaxTags == 2
MaxTitles == 3
MaxContainers == 2

\* the tags of a page that carry a link or could: two links to documents in
\* Content, a tag without href, a document elsewhere, a page in Content
SomeTags ==
    {Anchor(<<"a">>), Anchor(<<"b">>),
     [attrs |-> {}, href |-> ProcedureHref(<<>>)],
     [attrs |-> {"href"},
      href |-> [folder |-> "Images", stem |-> <<"i">>, ext |-> "pdf"]],
     [attrs |-> {"href"},
      href |-> [folder |-> "Content", stem |-> <<"h">>, ext |-> "html"]]}

\* the texts of the .title elements of the procedure body
AllTitles == << <<" ", "A", " ">>, <<"B">>, <<"C">>, <<"D">> >>
\* the ids of the collapsibleContainer elements
AllContainers == << <<"c">>, <<"d">>, <<"e">> >>
\* the texts of the procTitle elements
AllProcTitles == << <<"P", " ">>, <<"Q">>, <<"R">> >>

\* the final url of a redirect to a document
RedirectUrl == urljoin(URL, ProcedureHref(<<"r">>))

\* volume, page and the response of request_volume_page_pdf_links: any
\* body, reached at the search page or through a redirect to a document
ExtractInputs ==
    {[op |-> "request_volume_page_pdf_links", done |-> FALSE,
      volume |-> AllVolumes[1], page |-> AllPages[1],
      response |-> [SearchPage(NoTokens, tags, titles, containers,
                               proc_titles) EXCEPT !.url = url],
      ret |-> <<>>] :
        url \in {SearchUrl, RedirectUrl},
        tags \in ListsUpTo(SomeTags, MaxTags),
        titles \in Prefixes(SubSeq(AllTitles, 1, MaxTitles)),
        containers \in Prefixes(SubSeq(AllContainers, 1, MaxContainers)),
        proc_titles \in Prefixes(SubSeq(AllProcTitles, 1, MaxContainers))}

\* the longest name a slug is made of
MaxNameLen == 3

\* the characters of a name: letters, a digit, blank, punctuation, a letter
\* outside ASCII
SlugChars == {"a", "B", "1", "_", " ", "-", ".", "/", "ß"}

\* the descriptor whose slug is read
SlugInputs ==
    {[op |-> "slug", done |-> FALSE,
      description |-> PdfDescription(AllVolumes[1], AllPages[1], name,
                                     RedirectUrl),
      ret |-> <<>>, twice |-> FALSE, again |-> <<>>] :
        name \in ListsUpTo(SlugChars, MaxNameLen)}

\* the largest total a progress bar is given
MaxTotal == 2
\* the number of set_total and increase calls made on one progress bar
MaxBarCalls == 4

\* a progress bar as its constructor leaves it
BarInputs ==
    {[op |-> "ProgressBar", done |-> FALSE, bar |-> ProgressBar(total),
      steps |-> 0] : total \in 0..MaxTotal}

PureInputs ==
    SplitInputs \cup DedupInputs \cup ExtractInputs \cup SlugInputs
        \cup BarInputs

InitPure ==
    /\ scrapper = [t \in Tasks |-> NewScrapper]
    /\ received = [t \in Tasks |-> <<>>]
    /\ call = [t \in Tasks |-> NoCall]
    /\ sid = [t \in Tasks |-> 0]
    /\ calls = 0
    /\ pc = [t \in Tasks |-> "idle"]
    /\ fetch = NoFetch
    /\ load = NoLoad
    /\ work = [w \in Workers |-> NoWork]
    /\ faults = 0
    /\ down = NoDown
    /\ pure \in PureInputs

\* page_chunks = numpy.array_split(pages, number_of_processes)
SplitPages ==
    /\ pure.op = "array_split"
    /\ ~pure.done
    /\ pure' = [pure EXCEPT
           !.page_chunks = array_split(pure.pages, pure.number_of_processes),
           !.done = TRUE]
    /\ UNCHANGED <<sessionVars, pc, fetch, load, work, faults, down>>

\* deduplicate_links(links)
Deduplicate ==
    /\ pure.op = "deduplicate_links"
    /\ ~pure.done
    /\ pure' = [pure EXCEPT
           !.ret = deduplicate_links(pure.links),
           !.done = TRUE]
    /\ UNCHANGED <<sessionVars, pc, fetch, load, work, faults, down>>

\* deduplicate_links applied to its own result
DeduplicateAgain ==
    /\ pure.op = "deduplicate_links"
    /\ pure.done
    /\ ~pure.twice
    /\ pure' = [pure EXCEPT
           !.again = deduplicate_links(pure.ret),
           !.twice = TRUE]
    /\ UNCHANGED <<sessionVars, pc, fetch, load, work, faults, down>>

\* request_volume_page_pdf_links(volume, page), answered at once
ExtractFromResponse ==
    /\ pure.op = "request_volume_page_pdf_links"
    /\ ~pure.done
    /\ pure' = [pure EXCEPT
           !.ret = request_volume_page_pdf_links(
                       NewScrapper, pure.volume, pure.page, 0,
                       pure.response).ret,
           !.done = TRUE]
    /\ UNCHANGED <<sessionVars, pc, fetch, load, work, faults, down>>

\* description.slug
ReadSlug ==
    /\ pure.op = "slug"
    /\ ~pure.done
    /\ pure' = [pure EXCEPT !.ret = slug(pure.description), !.done = TRUE]
    /\ UNCHANGED <<sessionVars, pc, fetch, load, work, faults, down>>

\* the slug of a descriptor that is named by the slug just read
ReadSlugAgain ==
    /\ pure.op = "slug"
    /\ pure.done
    /\ ~pure.twice
    /\ pure' = [pure EXCEPT
                    !.again = slug([pure.description EXCEPT !.name = pure.ret]),
                    !.twice = TRUE]
    /\ UNCHANGED <<sessionVars, pc, fetch, load, work, faults, down>>

\* progress_bar.set_total(total)
BarSetTotal ==
    /\ pure.op = "ProgressBar"
    /\ pure.steps < MaxBarCalls
    /\ \E total \in 0..MaxTotal :
          pure' = [pure EXCEPT !.bar = set_total(@, total),
                               !.steps = @ + 1]
    /\ UNCHANGED <<sessionVars, pc, fetch, load, work, faults, down>>

\* progress_bar.increase()
BarIncrease ==
    /\ pure.op = "ProgressBar"
    /\ pure.steps < MaxBarCalls
    /\ pure' = [pure EXCEPT !.bar = increase(@), !.steps = @ + 1]
    /\ UNCHANGED <<sessionVars, pc, fetch, load, work, faults, down>>

NextPure ==
    \/ BarSetTotal
    \/ BarIncrease
    \/ SplitPages
    \/ ReadSlug
    \/ ReadSlugAgain
    \/ ExtractFromResponse
    \/ Deduplicate
    \/ DeduplicateAgain

SpecPure == InitPure /\ [][NextPure]_vars

----------------------------------------------------------------------------
(* Properties of the functions *)

\* C12: for every page sequence and every number N >= 1 of workers the pages
\* are split into exactly N contiguous chunks whose sizes differ by at most
\* one and whose concatenation in worker order is the page sequence; 10
\* pages for 4 workers give chunks of 3, 3, 2 and 2 pages.
C12_ChunksPartitionThePages ==
    (pure.op = "array_split" /\ pure.done)
    => LET chunks == pure.page_chunks
           n == pure.number_of_processes
       IN  /\ Len(chunks) = n
           /\ Concat(chunks) = pure.pages
           /\ \A i, j \in 1..n : Len(chunks[i]) - Len(chunks[j]) <= 1
           /\ (Len(pure.pages) = 10 /\ n = 4)
              => [k \in 1..n |-> Len(chunks[k])] = <<3, 3, 2, 2>>

\* ten pages have been split for four workers
C12_Witness ==
    /\ pure.op = "array_split"
    /\ pure.done
    /\ Len(pure.pages) = 10
    /\ pure.number_of_processes = 4

\* the positions of the input that hold a descriptor with this url
Occurrences(links, url) == {i \in 1..Len(links) : links[i].url = url}

\* the least position of a set of positions
First(positions) == CHOOSE i \in positions : \A j \in positions : i <= j

\* C13: for every input of descriptors without aliases the result holds,
\* for each url, a descriptor with the name of the first input descriptor
\* with that url whose aliases are exactly the other distinct names seen
\* with the url, in first-seen order, none repeated and never its own name.
C13_AliasesAreTheOtherNames ==
    (pure.op = "deduplicate_links" /\ pure.done)
    => \A k \in 1..Len(pure.ret) :
          LET d == pure.ret[k]
              occ == Occurrences(pure.links, d.url)
              seen(name) ==
                  First({i \in occ : pure.links[i].name = name})
          IN  /\ occ # {}
              /\ d.name = pure.links[First(occ)].name
              /\ {d.aliases[i] : i \in 1..Len(d.aliases)}
                    = {pure.links[i].name : i \in occ} \ {d.name}
              /\ \A i, j \in 1..Len(d.aliases) :
                    i < j => /\ d.aliases[i] # d.aliases[j]
                             /\ seen(d.aliases[i]) < seen(d.aliases[j])

\* names A, B, B were seen with one url: name A, the one alias B
C13_Witness ==
    /\ pure.op = "deduplicate_links"
    /\ pure.done
    /\ \E k \in 1..Len(pure.ret) :
          /\ pure.ret[k].name = <<"A">>
          /\ pure.ret[k].aliases = << <<"B">> >>
          /\ Len(pure.links) = 3
          /\ \A i \in 1..3 : pure.links[i].url = pure.ret[k].url
          /\ pure.links[2].name = <<"B">>
          /\ pure.links[3].name = <<"B">>

\* C14: the result holds exactly one descriptor for every url of the input,
\* in the order in which the urls first occur in the input.
C14_OneDescriptorPerUrl ==
    (pure.op = "deduplicate_links" /\ pure.done)
    => /\ {pure.ret[k].url : k \in 1..Len(pure.ret)}
             = {pure.links[i].url : i \in 1..Len(pure.links)}
       /\ \A j, k \in 1..Len(pure.ret) :
             j < k => /\ pure.ret[j].url # pure.ret[k].url
                      /\ First(Occurrences(pure.links, pure.ret[j].url))
                            < First(Occurrences(pure.links, pure.ret[k].url))

\* three descriptors with two urls, the first url seen again at the end
C14_Witness ==
    /\ pure.op = "deduplicate_links"
    /\ pure.done
    /\ Len(pure.links) = 3
    /\ Len(pure.ret) = 2
    /\ pure.links[1].url = pure.links[3].url
    /\ pure.links[1].url # pure.links[2].url

\* C15: deduplicate_links applied to its result gives the same descriptors
\* in the same order with the same names and aliases.
C15_DeduplicateIsIdempotent ==
    (pure.op = "deduplicate_links" /\ pure.twice) => pure.again = pure.ret

\* a result with an alias has been deduplicated again
C15_Witness ==
    /\ pure.op = "deduplicate_links"
    /\ pure.twice
    /\ Len(pure.links) > Len(pure.ret)
    /\ \E k \in 1..Len(pure.ret) : pure.ret[k].aliases # <<>>

\* a tag of the primary layout: a link into Content that ends in .pdf
IsDocumentLink(tag) ==
    /\ "href" \in tag.attrs
    /\ tag.href.folder = "Content"
    /\ tag.href.ext = "pdf"

\* the absolute urls of the links of the primary layout, in document order
PrimaryLinks(response) ==
    LET found == SelectSeq(response.tags, IsDocumentLink)
    IN  [k \in 1..Len(found) |->
            [base |-> URL, folder |-> "Content",
             stem |-> found[k].href.stem, ext |-> "pdf"]]

\* the urls built from the ids of the containers of the alternate layout
AlternateLinks(response) ==
    [k \in 1..Len(response.containers) |->
        [base |-> URL, folder |-> "Content",
         stem |-> response.containers[k], ext |-> "pdf"]]

\* the stripped texts of title elements
Texts(title_tags) == [k \in 1..Len(title_tags) |-> Strip(title_tags[k])]

Elements(seq) == {seq[k] : k \in 1..Len(seq)}

ExtractedFromPage ==
    /\ pure.op = "request_volume_page_pdf_links"
    /\ pure.done
    /\ pure.response.url.ext # "pdf"

\* C17: when the final url of the response ends in .pdf the result is
\* exactly one descriptor with the volume and the page of the call, that url
\* and the filename stem of that url as name, whatever the body contains.
C17_RedirectGivesOneDescriptor ==
    (/\ pure.op = "request_volume_page_pdf_links"
     /\ pure.done
     /\ pure.response.url.ext = "pdf")
    => pure.ret = << [aliases |-> <<>>, annual_volume |-> pure.volume,
                     name |-> pure.response.url.stem, page |-> pure.page,
                     url |-> pure.response.url] >>

\* a redirect to a document whose body holds two links and three titles
C17_Witness ==
    /\ pure.op = "request_volume_page_pdf_links"
    /\ pure.done
    /\ pure.response.url = RedirectUrl
    /\ Len(PrimaryLinks(pure.response)) = 2
    /\ Len(pure.response.titles) = 3
    /\ Len(pure.ret) = 1

\* C18: on a full HTML page there are as many descriptors as extracted
\* links; with as many titles as links the i-th descriptor has the i-th
\* title as name and the i-th link as url, otherwise every descriptor is
\* named by the filename stem of its own link and no title is used.
C18_TitlesPairOrStemsName ==
    ExtractedFromPage
    => LET primary == PrimaryLinks(pure.response)
           links == IF primary # <<>> THEN primary
                    ELSE AlternateLinks(pure.response)
           titles == IF primary # <<>> THEN Texts(pure.response.titles)
                     ELSE Texts(pure.response.proc_titles)
       IN  /\ Len(pure.ret) = Len(links)
           /\ \A i \in 1..Len(links) :
                 /\ pure.ret[i].url = links[i]
                 /\ pure.ret[i].annual_volume = pure.volume
                 /\ pure.ret[i].page = pure.page
                 /\ pure.ret[i].aliases = <<>>
                 /\ Len(titles) = Len(links)
                    => pure.ret[i].name = titles[i]
                 /\ Len(titles) # Len(links)
                    => pure.ret[i].name = links[i].stem

\* two links of the primary layout with three titles: two descriptors named
\* by their stems
C18_Witness ==
    /\ ExtractedFromPage
    /\ Len(PrimaryLinks(pure.response)) = 2
    /\ Len(pure.response.titles) = 3
    /\ Len(pure.ret) = 2
    /\ \A i \in 1..2 : pure.ret[i].name = pure.ret[i].url.stem

\* C19: the alternate layout is used if and only if the primary selector
\* finds no link: with a primary link the urls are the primary links and the
\* names come from the primary titles or the stems of those links, without
\* one the urls are built from the container ids and the names come from the
\* procTitle elements or those ids.
C19_AlternateOnlyWithoutPrimaryLinks ==
    ExtractedFromPage
    => LET primary == PrimaryLinks(pure.response)
           alternate == AlternateLinks(pure.response)
           urls == [k \in 1..Len(pure.ret) |-> pure.ret[k].url]
           names == {pure.ret[k].name : k \in 1..Len(pure.ret)}
       IN  /\ primary # <<>>
              => /\ urls = primary
                 /\ names \subseteq
                       Elements(Texts(pure.response.titles))
                       \cup {primary[k].stem : k \in 1..Len(primary)}
           /\ primary = <<>>
              => /\ urls = alternate
                 /\ names \subseteq
                       Elements(Texts(pure.response.proc_titles))
                       \cup Elements(pure.response.containers)

\* a page without a link of the primary layout, but with another link and
\* with titles of the primary layout, gave the descriptors of its containers
C19_Witness ==
    /\ ExtractedFromPage
    /\ PrimaryLinks(pure.response) = <<>>
    /\ pure.response.tags # <<>>
    /\ \E k \in 1..Len(pure.response.tags) :
          "href" \in pure.response.tags[k].attrs
    /\ pure.response.titles # <<>>
    /\ Len(pure.ret) = 2
    /\ pure.ret[1].name = <<"P">>

\* how often a character occurs in a text
Count(text, c) == Cardinality({k \in 1..Len(text) : text[k] = c})

\* the characters of [A-Za-z0-9_.-] among those of the names
AsciiSlugChars == {"a", "b", "A", "B", "1", "_", "-", "."}

\* C20 as stated: every slug holds only characters of [A-Za-z0-9_.-], every
\* space inside the stripped name has become an underscore, and a letter
\* outside ASCII is lost.
C20_SlugIsAscii ==
    (pure.op = "slug" /\ pure.done)
    => LET stripped == Strip(pure.description.name)
       IN  /\ \A k \in 1..Len(pure.ret) : pure.ret[k] \in AsciiSlugChars
           /\ Count(pure.ret, "_")
                 = Count(stripped, "_") + Count(stripped, " ")
           /\ Count(pure.ret, "ß") = 0

\* C20 amended: every slug holds only word characters of any script, "-"
\* and ".", every space inside the stripped name has become an underscore,
\* and a letter outside ASCII is kept; the slug is the stripped name without
\* its other characters.
C20_SlugKeepsWordCharacters ==
    (pure.op = "slug" /\ pure.done)
    => LET stripped == Strip(pure.description.name)
           kept == SelectSeq(stripped,
                       LAMBDA c : c \in AsciiSlugChars \cup {"ß", " "})
       IN  /\ \A k \in 1..Len(pure.ret) :
                 pure.ret[k] \in AsciiSlugChars \cup {"ß"}
           /\ Count(pure.ret, "_")
                 = Count(stripped, "_") + Count(stripped, " ")
           /\ Count(pure.ret, "ß") = Count(pure.description.name, "ß")
           /\ pure.ret = [k \in 1..Len(kept) |->
                              IF kept[k] = " " THEN "_" ELSE kept[k]]

\* the slug of a name with a blank inside and a letter outside ASCII
C20_Witness ==
    /\ pure.op = "slug"
    /\ pure.done
    /\ pure.description.name = <<"a", " ", "ß">>
    /\ pure.ret = <<"a", "_", "ß">>

----------------------------------------------------------------------------
(* Properties of the crawl *)

Fields(triple) ==
    {triple.viewstate, triple.viewstategenerator, triple.eventvalidation}

OwnTokens(t, triple) ==
    \A token \in Fields(triple) : token = None \/ token[1] = sid[t]

\* C3: for every interleaving of the worker tasks every postback of a
\* worker carries only tokens issued in responses to the session of that
\* worker, never one issued to the seeding session or to another worker, and
\* every instance holds only tokens of its own session.
C3_OwnTokensOnly ==
    /\ \A t \in Tasks :
          /\ call[t].op \in PostbackOps => OwnTokens(t, call[t].sent)
          /\ OwnTokens(t, [viewstate |-> scrapper[t].viewstate,
                           viewstategenerator |->
                               scrapper[t].viewstategenerator,
                           eventvalidation |-> scrapper[t].eventvalidation])
    /\ \A t1, t2 \in Tasks :
          (t1 # t2 /\ sid[t1] # 0) => sid[t1] # sid[t2]

\* two workers are in the middle of their chunks and both have sent a
\* postback with the tokens of their sessions
C3_Witness ==
    \E w1, w2 \in Workers :
        /\ w1 # w2
        /\ pc[w1] = "for_page" /\ pc[w2] = "for_page"
        /\ call[w1].op \in PostbackOps /\ call[w1].sent # NoTokens
        /\ call[w2].op \in PostbackOps /\ call[w2].sent # NoTokens
        /\ call[0].op \in PostbackOps /\ call[0].sent # NoTokens

ValidationErrors == {"VolumeNotExist", "PageNotExist"}

ListingOps == {"request_volumes", "request_pages_of_volume"}

\* C8: a transient network failure never surfaces as an exception: when
\* request_volumes or request_pages_of_volume gives up inside
\* do_load_volume_links_parallel or inside a worker, the enclosing operation
\* raises neither the volume-does-not-exist nor the page-does-not-exist error.
C8_ExhaustionNeverRaises ==
    /\ \A w \in Workers :
          (call[w].op \in ListingOps /\ call[w].exhausted)
          => work[w].exc.kind \notin ValidationErrors
    /\ (call[0].op = "request_volumes" /\ call[0].exhausted)
       => pc[0] # "raised"

\* C9: when one worker task fails validation only its chunk is lost:
\* do_load_volume_links_parallel still returns the descriptors of the other
\* workers and fetch_links goes on with the remaining volumes, so the
\* coordinator never ends with the exception of a worker.
C9_OnlyTheChunkIsLost ==
    pc[0] = "raised"
    => \A w \in Workers : work[w].exc.kind \notin ValidationErrors

\* C10: a worker sends the search postback for a page only if the page is
\* in the page list its own session fetched for the volume and the volume is
\* in the volume list its session fetched; a page that is not listed raises
\* an error naming the page and the volume.
C10_OnlyListedPagesAreRequested ==
    \A w \in Workers :
        /\ call[w].op = "request_volume_page_pdf_links"
           => /\ call[w].volume = work[w].volume
              /\ \E k \in 1..Len(work[w].volume_pages) :
                    work[w].volume_pages[k] = call[w].page
              /\ \E k \in 1..Len(work[w].volumes) :
                    work[w].volumes[k] = call[w].volume
              /\ Len(received[w]) >= 2
              /\ work[w].pages[work[w].index - 1] = call[w].page
        /\ work[w].exc.kind = "PageNotExist"
           => /\ work[w].exc.page = work[w].pages[work[w].index]
              /\ work[w].exc.volume = work[w].volume
              /\ \A k \in 1..Len(work[w].volume_pages) :
                    work[w].volume_pages[k] # work[w].exc.page
        /\ work[w].exc.kind # "PageNotExist" /\ pc[w] # "idle"
           => \A i \in 1..(work[w].index - 1) :
                 \E k \in 1..Len(work[w].volume_pages) :
                    work[w].volume_pages[k] = work[w].pages[i]

\* a worker has sent a search postback for a listed page, and another one
\* has raised for a page its list lacks
C10_Witness ==
    \E w1, w2 \in Workers :
        /\ call[w1].op = "request_volume_page_pdf_links"
        /\ ~call[w1].exhausted
        /\ work[w2].exc.kind = "PageNotExist"

\* C11: do_load_volume_links_parallel with a volume its seeding
\* request_volumes does not list fails with the volume-not-found error
\* before a page-list postback is sent and before a worker task is
\* dispatched, and the seeding session is closed all the same.
C11_UnknownVolumeFailsBeforePostback ==
    (call[0].op = "request_volumes" /\ pc[0] \in {"pages", "raised"})
    => LET listed == \E k \in 1..Len(call[0].ret) :
                         call[0].ret[k] = load.volume
       IN  /\ listed <=> pc[0] = "pages"
           /\ ~listed
              => /\ fetch.exc = VolumeNotExist(load.volume)
                 /\ scrapper[0].session = "closed"
                 /\ Len(received[0]) <= 1
                 /\ load.pages = <<>>
                 /\ load.page_chunks = <<>>
                 /\ \A w \in Workers :
                       /\ work[w].volume # load.volume
                       /\ pc[w] \in {"idle", "returned"}

\* the second volume of a crawl is missing in the list its seeding session
\* got from the server, after the workers have crawled the first volume
C11_Witness ==
    /\ pc[0] = "raised"
    /\ call[0].op = "request_volumes"
    /\ ~call[0].exhausted
    /\ fetch.exc.kind = "VolumeNotExist"
    /\ fetch.index = 2
    /\ \E w \in Workers : pc[w] = "returned"

\* C16: fetch_links deduplicates once over the descriptors of all volumes:
\* its result never holds two descriptors with one url, whichever volumes or
\* workers found them, and it holds every url that was found; the list of
\* volumes is assigned once, before the loop, and the loop takes the volumes
\* one by one until every volume of the list has been crawled.
C16_OneDeduplicationOverAllVolumes ==
    /\ [](pc[0] = "done"
          => /\ \A j, k \in 1..Len(fetch.ret) :
                   j # k => fetch.ret[j].url # fetch.ret[k].url
             /\ {fetch.ret[k].url : k \in 1..Len(fetch.ret)}
                   = {fetch.pdf_descriptions[k].url :
                         k \in 1..Len(fetch.pdf_descriptions)}
             /\ fetch.index = Len(fetch.annual_volumes) + 1)
    /\ [][/\ fetch'.annual_volumes # fetch.annual_volumes
             => pc[0] = "fetch_links"
          /\ fetch'.index # fetch.index
             => /\ fetch'.index = fetch.index + 1
                /\ pc[0] = "merge"
                /\ load.volume = fetch.annual_volumes[fetch.index]
                /\ fetch'.pdf_descriptions
                      = fetch.pdf_descriptions \o Concat(load.result)
          /\ fetch'.ret # fetch.ret => pc'[0] = "done"]_vars

\* a crawl of all volumes has returned; two volumes were listed and both
\* gave a descriptor with the same url
C16_Witness ==
    /\ pc[0] = "done"
    /\ fetch.volume = VolumeNone
    /\ Len(fetch.annual_volumes) = 2
    /\ \E j, k \in 1..Len(fetch.pdf_descriptions) :
          /\ fetch.pdf_descriptions[j].url = fetch.pdf_descriptions[k].url
          /\ fetch.pdf_descriptions[j].annual_volume
                # fetch.pdf_descriptions[k].annual_volume
    /\ Len(fetch.ret) < Len(fetch.pdf_descriptions)

----------------------------------------------------------------------------
(* Properties of the download *)

TaskIds == 1..Len(down.task)

\* C7: in download_pdf_files_parallel a descriptor whose transfer always
\* fails with URLError is attempted exactly 5 times and its task returns
\* False; this neither raises in the coordinating process nor terminates
\* another task, and when the batch is through every descriptor has been
\* attempted.
C7_FailedFileIsNotFatal ==
    /\ \A k \in TaskIds :
          (down.task[k].state \in {"returned", "raised"}
              /\ down.task[k].fails >= Tries)
          => /\ down.task[k].state = "returned"
             /\ down.task[k].attempts = Tries
             /\ down.task[k].ret = FALSE
    /\ \A k \in TaskIds :
          (down.task[k].state = "returned" /\ ~down.task[k].ret)
          => down.task[k].exc = NoError
    /\ (pc[0] = "raised" \/ \E k \in TaskIds :
                               down.task[k].state = "terminated")
       => \E k \in TaskIds : down.task[k].exc = OSError
    /\ pc[0] = "done"
       => \A k \in TaskIds :
             /\ down.task[k].state = "returned"
             /\ down.task[k].attempts >= 1
             /\ k \in down.counted

\* a batch is through in which one file was given up after five attempts
\* and another one, started later, was fetched
C7_Witness ==
    /\ pc[0] = "done"
    /\ \E j, k \in TaskIds :
          /\ j < k
          /\ down.task[j].attempts = Tries /\ ~down.task[j].ret
          /\ down.task[j].fails >= Tries
          /\ down.task[k].ret

\* C21: reading the slug of a descriptor that is named by a slug gives that
\* slug again: slug is idempotent.
C21_SlugIsIdempotent ==
    (pure.op = "slug" /\ pure.twice) => pure.again = pure.ret

\* a name with a leading blank and a character slug removes has been read
\* twice, and the first reading changed it
C21_Witness ==
    /\ pure.op = "slug"
    /\ pure.twice
    /\ pure.description.name = <<" ", "a", "/">>
    /\ pure.ret = <<"a">>
    /\ pure.again = <<"a">>

\* C22: once download_pdf_files_parallel is past its makedirs loop, the
\* directory dest_dir/volume/page of every descriptor of the batch exists and
\* no error has been raised, also when a directory was there before; no task
\* is queued or started before that, and the parent directory of the target
\* path of every task that has started exists.
C22_DirectoriesBeforeDispatch ==
    /\ pc[0] \in {"imap", "results", "raised", "done"} =>
           \A k \in 1..Len(down.links) :
               <<down.dest_dir, down.links[k].annual_volume,
                 down.links[k].page>> \in down.directories
    /\ pc[0] = "imap" => down.exc = NoError
    /\ pc[0] = "makedirs" =>
           \A k \in 1..Len(down.task) : down.task[k].state = "none"
    /\ \A k \in 1..Len(down.task) :
           down.task[k].path # <<>> =>
               /\ Len(down.task[k].path) = 4
               /\ SubSeq(down.task[k].path, 1, 3) \in down.directories

\* a download of the second page runs while the first task is through; the
\* directory of the first page was there before the call
C22_Witness ==
    /\ pc[0] = "results"
    /\ down.existing # {}
    /\ Len(down.task) = 3
    /\ down.task[1].state = "returned"
    /\ down.task[3].state = "running"
    /\ down.task[3].path[3] # down.task[1].path[3]
    /\ SubSeq(down.task[3].path, 1, 3) \in down.directories \ down.existing

\* a task of the pool that has started and has neither returned nor raised
WorkerRuns(w) == pc[w] \in {"start", "request_pages", "for_page"}

\* C23: while a worker task of a batch runs the coordinator waits in starmap
\* and has neither the list of results nor any merged link of that batch;
\* the result list, the merged list and the list of all volumes change only
\* in steps before and after which no worker task runs; and the tasks of a
\* volume are started only when no task of the volume before runs and the
\* links of that volume's tasks are the tail of the list of all volumes.
C23_MergeAfterJoin ==
    /\ []((\E w \in Workers : WorkerRuns(w)) =>
             /\ pc[0] = "join"
             /\ load.result = <<>>
             /\ load.links = <<>>)
    /\ [][(\/ load.result' # load.result
           \/ load.links' # load.links
           \/ fetch.pdf_descriptions' # fetch.pdf_descriptions) =>
              /\ \A w \in Workers : ~WorkerRuns(w)
              /\ \A w \in Workers : ~WorkerRuns(w)']_vars
    /\ [][(\E w \in Workers : ~WorkerRuns(w) /\ WorkerRuns(w)') =>
              /\ pc[0] = "dispatch"
              /\ \A w \in Workers : pc[w] \in {"idle", "returned"}
              /\ LET merged == fetch.pdf_descriptions
                     last == Concat([w \in Dispatched |-> work[w].links])
                 IN  /\ Len(last) <= Len(merged)
                     /\ SubSeq(merged, Len(merged) - Len(last) + 1,
                               Len(merged)) = last]_vars

\* the second volume is fanned out to two workers, one of them has returned
\* and the other still asks for links; the links of the first volume are
\* merged
C23_Witness ==
    /\ pc[0] = "join"
    /\ fetch.index = 2
    /\ fetch.pdf_descriptions # <<>>
    /\ pc[1] = "returned"
    /\ pc[2] = "for_page"
    /\ work[1].links # <<>>
    /\ load.result = <<>>

\* the task is through with its unit of work, by return or by raise
Through(t) == pc[t] \in {"returned", "raised", "done"}

\* C24: a session that is open is closed later on, and it is closed in
\* every state in which its task is through, also when the task has raised;
\* every request was sent on an open session; while a session of a worker
\* is open the session of the coordinator is closed; and a worker opens its
\* session only at the start of its task, as a session that has got no
\* response yet, for the chunk starmap gave it.
C24_SessionsAreScoped ==
    /\ \A t \in Tasks :
          (scrapper[t].session = "open") ~> (scrapper[t].session = "closed")
    /\ [](\A t \in Tasks :
             /\ Through(t) => scrapper[t].session # "open"
             /\ call[t].op # "none" => call[t].session = "open")
    /\ [](\A w \in Workers :
             scrapper[w].session = "open" => scrapper[0].session = "closed")
    /\ [][\A w \in Workers :
             (scrapper[w].session # "open" /\ scrapper'[w].session = "open") =>
                 /\ pc[w] = "start"
                 /\ received[w] = <<>>
                 /\ work[w].links = <<>>
                 /\ work'[w].pages = load.page_chunks[w]
                 /\ \A t \in Tasks \ {w} : sid'[w] # sid'[t]]_vars

\* a worker has raised PageNotExist after a request for links on its
\* session, and the session is closed
C24_Witness ==
    \E w \in Workers :
        /\ pc[w] = "raised"
        /\ work[w].exc.kind = "PageNotExist"
        /\ call[w].op = "request_volume_page_pdf_links"
        /\ call[w].session = "open"
        /\ scrapper[w].session = "closed"
        /\ scrapper[0].session = "closed"

\* the pages among the first n of the chunk of worker w that have no
\* descriptor in the list of the worker
PagesWithoutLinks(w, n) ==
    {k \in 1..n :
        \A j \in 1..Len(work[w].links) :
            work[w].links[j].page # work[w].pages[k]}

\* C25: when the last request of a worker for the links of a page has used
\* up its tries, the call has returned the empty list without an exception,
\* the worker holds no descriptor of that page, it is past that page in its
\* chunk and has not raised because of it; and of the pages a worker is past
\* at most as many are without a descriptor as requests were disturbed, so
\* the pages after a failed one have given their descriptors.
C25_WorkerGoesOnAfterFailedPage ==
    \A w \in Workers :
        /\ (call[w].op = "request_volume_page_pdf_links" /\ call[w].exhausted) =>
               /\ call[w].ret = <<>>
               /\ call[w].exc = NoError
               /\ \A j \in 1..Len(work[w].links) :
                      work[w].links[j].page # call[w].page
               /\ work[w].index > 1
               /\ work[w].pages[work[w].index - 1] = call[w].page
               /\ pc[w] \in {"for_page", "returned", "raised"}
               /\ pc[w] = "raised" =>
                      /\ work[w].exc.kind = "PageNotExist"
                      /\ work[w].exc.page # call[w].page
        /\ pc[w] \in {"for_page", "returned"} =>
               /\ work[w].index <= Len(work[w].pages) + 1
               /\ Cardinality(PagesWithoutLinks(w, work[w].index - 1)) <= faults

\* a worker has returned from a chunk of three pages: the request for the
\* first page failed for good, the two pages after it gave their links
C25_Witness ==
    \E w \in Workers :
        /\ pc[w] = "returned"
        /\ Len(work[w].pages) = 3
        /\ PagesWithoutLinks(w, 3) = {1}
        /\ work[w].exc = NoError
        /\ call[w].op = "request_volume_page_pdf_links"
        /\ ~call[w].exhausted

\* where a page stands in a list of pages
PositionIn(pages, page) ==
    CHOOSE k \in 1..Len(pages) : pages[k] = page

\* the descriptors follow each other as their pages do in the list
InPageOrder(links, pages) ==
    /\ \A k \in 1..Len(links) :
          \E p \in 1..Len(pages) : pages[p] = links[k].page
    /\ \A j, k \in 1..Len(links) :
          j < k => PositionIn(pages, links[j].page)
                       <= PositionIn(pages, links[k].page)

\* C26: whichever worker is ahead, the list of a worker holds descriptors
\* of the pages of its chunk it is past, in the order of the chunk; and the
\* list do_load_volume_links_parallel returns holds every descriptor of
\* every worker, in the order of the pages of the coordinator.
C26_LinksInPageOrder ==
    /\ \A w \in Workers :
          InPageOrder(work[w].links,
                      SubSeq(work[w].pages, 1, work[w].index - 1))
    /\ load.links # <<>> =>
          /\ InPageOrder(load.links, load.pages)
          /\ \A w \in Dispatched : \A k \in 1..Len(work[w].links) :
                 \E j \in 1..Len(load.links) :
                     load.links[j] = work[w].links[k]

\* the lists of two workers are merged: the first worker had two pages and
\* the second one page, and the merged list starts with a descriptor of the
\* first page and ends with one of the last
C26_Witness ==
    /\ pc[0] = "for_vol"
    /\ fetch.number_of_processes = 2
    /\ Len(work[1].pages) = 2
    /\ Len(work[2].pages) = 1
    /\ work[1].links # <<>>
    /\ work[2].links # <<>>
    /\ Len(load.links) = Len(work[1].links) + Len(work[2].links)
    /\ load.links[1].page = load.pages[1]
    /\ load.links[Len(load.links)].page = load.pages[3]

\* C27 as the specification has it: the chunks with one page more are the
\* last chunks of the split, so no chunk is longer than one after it.
C27_ExtraPagesGoLast ==
    (pure.op = "array_split" /\ pure.done)
    => LET chunks == pure.page_chunks
       IN  \A i, j \in 1..Len(chunks) :
               i < j => Len(chunks[i]) <= Len(chunks[j])

\* C27: when the number of pages is not a multiple of the number of
\* workers, the chunks with one page more are the first chunks of the
\* split: no chunk is shorter than one after it, and the chunks that are
\* longer than the last one are the first len % n.
C27_ExtraPagesGoFirst ==
    (pure.op = "array_split" /\ pure.done)
    => LET chunks == pure.page_chunks
           n == pure.number_of_processes
           rest == Len(pure.pages) % n
       IN  /\ \A i, j \in 1..Len(chunks) :
                  i < j => Len(chunks[i]) >= Len(chunks[j])
           /\ {k \in 1..Len(chunks) : Len(chunks[k]) > Len(chunks[n])}
                  = 1..rest

\* seven pages have been split for three workers: the first chunk has three
\* pages, the other two have two
C27_Witness ==
    /\ pure.op = "array_split"
    /\ pure.done
    /\ Len(pure.pages) = 7
    /\ pure.number_of_processes = 3
    /\ Len(pure.page_chunks[1]) = 3
    /\ Len(pure.page_chunks[3]) = 2

\* the input of deduplicate_links in another order
Permuted(links, order) == [k \in 1..Len(links) |-> links[order[k]]]

\* the urls of a list of descriptors
UrlsOf(links) == {links[k].url : k \in 1..Len(links)}

\* the names a list of descriptors holds for a url, as name or as alias
NamesOf(links, url) ==
    UNION {{links[k].name}
              \cup {links[k].aliases[a] : a \in 1..Len(links[k].aliases)} :
           k \in {j \in 1..Len(links) : links[j].url = url}}

\* the descriptors of a list without their aliases
Primaries(links) ==
    {[url |-> links[k].url, name |-> links[k].name,
      annual_volume |-> links[k].annual_volume, page |-> links[k].page] :
        k \in 1..Len(links)}

\* C28 as the specification has it: in whatever order the descriptors are
\* given, the result has the same urls and for each url the same name,
\* volume and page, and the same aliases but for their order.
C28_OnlyAliasOrderDepends ==
    (pure.op = "deduplicate_links" /\ pure.done)
    => \A order \in Permutations(1..Len(pure.links)) :
          LET other == deduplicate_links(Permuted(pure.links, order))
          IN  /\ Primaries(other) = Primaries(pure.ret)
              /\ \A url \in UrlsOf(pure.ret) :
                     NamesOf(other, url) = NamesOf(pure.ret, url)

\* C28: in whatever order descriptors without aliases are given, the result
\* has the same urls, one descriptor for each, and for each url the same
\* names, the name of the descriptor and its aliases taken together.
C28_SameUrlsAndNames ==
    (pure.op = "deduplicate_links" /\ pure.done)
    => \A order \in Permutations(1..Len(pure.links)) :
          LET other == deduplicate_links(Permuted(pure.links, order))
          IN  /\ UrlsOf(other) = UrlsOf(pure.ret)
              /\ Len(other) = Len(pure.ret)
              /\ \A url \in UrlsOf(pure.ret) :
                     NamesOf(other, url) = NamesOf(pure.ret, url)

\* three descriptors of two urls have been deduplicated: two names on two
\* pages share the first url, so that another order gives that url another
\* name, volume and page
C28_Witness ==
    /\ pure.op = "deduplicate_links"
    /\ pure.done
    /\ Len(pure.links) = 3
    /\ Len(pure.ret) = 2
    /\ pure.links[1].url = pure.links[3].url
    /\ pure.links[1].name # pure.links[3].name
    /\ pure.links[1].page # pure.links[3].page
    /\ pure.ret[1].aliases = <<pure.links[3].name>>

\* the worker has raised because a page of its chunk is not in its list
RaisedForPage(w) == pc[w] = "raised" /\ work[w].exc.kind = "PageNotExist"

\* C29 as the specification has it: a worker that raises because a page of
\* its chunk is not listed has sent no request for the links of any page.
C29_RaisesBeforeAnyLinksRequest ==
    \A w \in Workers :
        RaisedForPage(w) => call[w].op # "request_volume_page_pdf_links"

\* C29: a worker that raises because a page of its chunk is not listed
\* raises for the first such page of the chunk, when the loop gets to it: it
\* has sent no request for the links of that page or of a page after it,
\* and the last thing it sent is the request for the links of the page
\* before, or the request for the pages if there is no page before.
C29_RaisesBeforeThatPage ==
    \A w \in Workers :
        RaisedForPage(w) =>
            LET i == work[w].index
                listed(k) == \E j \in 1..Len(work[w].volume_pages) :
                                work[w].volume_pages[j] = work[w].pages[k]
            IN  /\ i \in 1..Len(work[w].pages)
                /\ work[w].exc.page = work[w].pages[i]
                /\ ~listed(i)
                /\ \A k \in 1..(i - 1) : listed(k)
                /\ \A j \in 1..Len(work[w].links) :
                       \E k \in 1..(i - 1) :
                           work[w].links[j].page = work[w].pages[k]
                /\ IF i = 1
                   THEN call[w].op = "request_pages_of_volume"
                   ELSE /\ call[w].op = "request_volume_page_pdf_links"
                        /\ call[w].page = work[w].pages[i - 1]

\* a worker has raised for the third page of its chunk after it got the
\* links of the first two
C29_Witness ==
    \E w \in Workers :
        /\ RaisedForPage(w)
        /\ work[w].index = 3
        /\ call[w].op = "request_volume_page_pdf_links"
        /\ call[w].page = work[w].pages[2]
        /\ work[w].links # <<>>
        /\ work[w].links[1].page = work[w].pages[1]

\* C30: when the server turns a postback of request_pages_of_volume or of
\* request_volume_page_pdf_links down with a response, because a token sent
\* was absent or stale, the call has made all its attempts and returns the
\* empty list without an exception.
C30_RejectionIsRetried ==
    \A t \in Tasks :
        (call[t].op \in PostbackOps /\ call[t].shape = "rejected")
        => /\ call[t].attempts = Tries
           /\ call[t].ret = <<>>
           /\ call[t].exc = NoError

\* the three methods that ask the server
RequestOps ==
    {"request_volumes", "request_pages_of_volume",
     "request_volume_page_pdf_links"}

\* C31: when the last call of a session was one of the three request
\* methods and gave up after its tries, it has returned the empty list
\* without an exception and the three stored tokens of the session are the
\* ones stored before the call.
C31_TokensKeptOnExhaustion ==
    \A t \in Tasks :
        (call[t].op \in RequestOps /\ call[t].exhausted)
        => /\ call[t].ret = <<>>
           /\ call[t].exc = NoError
           /\ scrapper[t].viewstate = call[t].before.viewstate
           /\ scrapper[t].viewstategenerator =
                  call[t].before.viewstategenerator
           /\ scrapper[t].eventvalidation = call[t].before.eventvalidation

\* a session that holds the three tokens of a response has made a postback
\* that gave up, and still holds them
C31_Witness ==
    \E t \in Tasks :
        /\ call[t].op \in PostbackOps
        /\ call[t].exhausted
        /\ call[t].before.viewstate # None
        /\ call[t].before.viewstategenerator # None
        /\ call[t].before.eventvalidation # None
        /\ scrapper[t].viewstate = call[t].before.viewstate

\* C32: in every retrying operation a sleep follows every failed attempt,
\* the last one too: a call that gave up has slept as often as it tried,
\* and a call that got through has slept once for each attempt that failed
\* before.
C32_SleepAfterEveryFailure ==
    \A t \in Tasks :
        call[t].op # "none" =>
            IF call[t].exhausted
            THEN /\ call[t].attempts >= 1
                 /\ Len(call[t].delays) = call[t].attempts
            ELSE /\ Len(call[t].delays) = call[t].attempts - 1
                 /\ Len(call[t].delays) = call[t].fails

\* request_volumes gave up: four attempts, four sleeps, 40 seconds the last
C32_Witness ==
    \E t \in Tasks :
        /\ call[t].op = "request_volumes"
        /\ call[t].exhausted
        /\ Len(call[t].delays) = call[t].attempts
        /\ call[t].delays[Len(call[t].delays)] = 40

\* C33: two tasks of a batch for descriptors with different urls never
\* run at the same time with the same target path.
C33_NoTwoTasksOnOnePath ==
    \A j, k \in 1..Len(down.task) :
        (/\ j # k
         /\ down.links[j].url # down.links[k].url
         /\ down.task[j].state = "running"
         /\ down.task[k].state = "running")
        => down.task[j].path # down.task[k].path

\* the calls of request_volume_page_pdf_links for a page: worker and
\* position in the list of the calls of that worker
RequestsFor(page) ==
    {<<w, k>> \in Workers \X (1..Len(load.pages)) :
        /\ w \in Dispatched
        /\ k <= Len(work[w].requested)
        /\ work[w].requested[k] = page}

\* C34: when starmap has returned without an exception, every page of the
\* list of the coordinator has been asked for by exactly one call of
\* request_volume_page_pdf_links of exactly one worker, nothing else has
\* been asked for, and a worker whose chunk is empty has made no such call.
C34_EveryPageRequestedOnce ==
    pc[0] = "merge" =>
        /\ \A p \in 1..Len(load.pages) :
               Cardinality(RequestsFor(load.pages[p])) = 1
        /\ \A w \in Dispatched :
               /\ Len(work[w].requested) = Len(load.page_chunks[w])
               /\ \A k \in 1..Len(work[w].requested) :
                      \E p \in 1..Len(load.pages) :
                          load.pages[p] = work[w].requested[k]
               /\ Len(load.page_chunks[w]) = 0 =>
                      call[w].op = "request_pages_of_volume"

\* two workers for a list of one page: the first has asked for the page,
\* the second has asked for the volumes and the pages only
C34_Witness ==
    /\ pc[0] = "merge"
    /\ fetch.number_of_processes = 2
    /\ Len(load.pages) = 1
    /\ work[1].requested = load.pages
    /\ work[2].requested = <<>>
    /\ call[2].op = "request_pages_of_volume"
    /\ call[1].op = "request_volume_page_pdf_links"

\* the most attempts one call of a request method makes
Ceiling(op) == IF op = "request_volumes" THEN Tries - 1 ELSE Tries

\* the worker task has come to its end
Ended(w) == pc[w] \in {"returned", "raised"}

\* the loop of fetch_links over the volumes is left
LoopLeft ==
    \/ pc[0] \in {"raised", "done"}
    \/ pc[0] = "for_vol" /\ fetch.index > Len(fetch.annual_volumes)

\* the attempts of every worker are within the ceilings of its loops
AttemptsBounded ==
    \A w \in Workers :
        /\ call[w].attempts <= Ceiling(call[w].op)
        /\ work[w].attempts
               <= (Tries - 1) + Tries + Tries * (work[w].index - 1)
        /\ work[w].attempts
               <= (Tries - 1) + Tries + Tries * Len(work[w].pages)

\* C35: no call of a request method makes more attempts than its loop
\* allows, 4 for the volumes and 5 for the others, and a worker with a chunk
\* of k pages has made at most 4 + 5 + 5 * k attempts, however far it is; a
\* worker task that has started comes to its end by return or raise, and
\* fetch_links leaves its loop over the volumes.
C35_BoundedAttemptsAndTermination ==
    /\ []AttemptsBounded
    /\ \A w \in Workers : (pc[w] = "start") ~> Ended(w)
    /\ <>LoopLeft

\* a worker has returned from a chunk of two pages after a request that
\* took all five attempts and got no answer
C35_Witness ==
    \E w \in Workers :
        /\ pc[w] = "returned"
        /\ Len(work[w].pages) = 2
        /\ work[w].attempts = 1 + 1 + Tries + 1
        /\ pc[0] = "join"

\* C36: download_pdf_file never raises: a transfer that fails, with whatever
\* kind of error, ends as a task that returned False, so the result loop of
\* download_pdf_files_parallel is never left by an exception and no task of the
\* batch is terminated before its result has been counted.
C36_DownloadNeverRaises ==
    /\ \A k \in TaskIds :
          /\ down.task[k].state \notin {"raised", "terminated"}
          /\ down.task[k].exc = NoError
    /\ down.exc = NoError
    /\ pc[0] # "raised"

\* the progress bar is redrawn in this step
Redrawn == pure'.bar.printed # pure.bar.printed

\* C37 as stated: for every sequence of set_total and increase calls
\* print_progress is never executed while total is 0, no redraw shows a
\* progress above the total, and the line break is written only by the
\* increase call that makes progress equal to total.
C37_BarNeverShowsMoreThanTotal ==
    [][pure.op = "ProgressBar" =>
          /\ Redrawn => pure'.bar.total # 0
          /\ Redrawn => pure'.bar.progress <= pure'.bar.total
          /\ pure'.bar.breaks # pure.bar.breaks
             => /\ pure'.bar.progress = pure.bar.progress + 1
                /\ pure'.bar.progress = pure'.bar.total]_vars

\* C37: for every sequence of set_total and increase calls print_progress is
\* never executed while total is 0, a redraw made by increase never shows a
\* progress above the total, a redraw made by set_total shows a progress
\* above the total exactly when the new total is below the progress counted
\* so far, and the line break is written only by the increase call that makes
\* progress equal to total.
C37_IncreaseNeverShowsMoreThanTotal ==
    [][pure.op = "ProgressBar" =>
          /\ Redrawn => pure'.bar.total # 0
          /\ (Redrawn /\ pure'.bar.progress # pure.bar.progress)
             => pure'.bar.progress <= pure'.bar.total
          /\ (Redrawn /\ pure'.bar.progress = pure.bar.progress)
             => pure'.bar.printed = pure.bar.printed + 1
          /\ (pure'.bar.progress = pure.bar.progress
                 /\ pure'.bar.total # 0)
             => Redrawn
          /\ pure'.bar.breaks # pure.bar.breaks
             => /\ pure'.bar.progress = pure.bar.progress + 1
                /\ pure'.bar.progress = pure'.bar.total
                /\ Redrawn]_vars

\* a bar that was filled and ended its line has been given a lower total,
\* which is not 0, and was redrawn with its progress above that total
C37_Witness ==
    /\ pure.op = "ProgressBar"
    /\ pure.bar.breaks = 1
    /\ pure.bar.total # 0
    /\ pure.bar.progress > pure.bar.total
    /\ pure.bar.printed >= pure.bar.progress + 2

====
